---- MODULE Spec2Model ----
(***************************************************************************)
(* NanoProcessor.process of the two BTV commissioning workflows            *)
(*   workflows/ctag_eWc_valid_sf.py   (channel "ctag",    W+c, e channel)  *)
(*   workflows/ttdilep_valid_sf.py    (channel "ttdilep", ttbar e-mu)      *)
(* as a state machine: one behaviour is one call of process() on one batch *)
(* of events, one action per block of the method.                          *)
(*                                                                         *)
(* Units.  pt and masses are whole GeV; angular distances and eta are in   *)
(* tenths; discriminants are in tenths (-0.2 is -2, the sentinel -1.0 is   *)
(* -10); impact parameters and isolation are in thousandths.  Weights and  *)
(* scale factors are integers.                                             *)
(***************************************************************************)
EXTENDS Integers, Sequences, FiniteSets, TLC

VARIABLES
    channel,      \* which workflow's process() runs
    isRealData,   \* not hasattr(events, "genWeight")
    isCorr,       \* self.isCorr
    triggers,     \* the requested trigger list
    hltPaths,     \* the trigger paths the batch schema has (fields of events.HLT)
    input,        \* the batch as the caller passed it
    events,       \* the batch as process() sees it: a sequence of event records
    pc,           \* position in process()
    sumw,         \* output["sumw"]
    diag,         \* what process() printed
    req,          \* the per-event requirement arrays (req_trig, req_lumi, ...)
    objs,         \* the per-event selected collections
    event_level,  \* the final selection mask
    weights,      \* the coffea Weights object: names added, per-event product
    sf,           \* disc_list and the scale-factor lookups made
    fills,        \* the fill calls made so far
    hists,        \* the histograms of output, by name
    returned      \* what process() returned ({dataset: output}), or NoOutput

vars == <<channel, isRealData, isCorr, triggers, hltPaths, input, events, pc, sumw, diag,
          req, objs, event_level, weights, sf, fills, hists, returned>>

----------------------------------------------------------------------------
(* Missing values (awkward's None): an option is <<>> or <<v>>.            *)

None == <<>>

Some(v) == <<v>>

IsNone(x) == x = None

Val(x) == x[1]

\* fill_none filling with the opposite value
fill_none_flipped(x, v) == IF IsNone(x) THEN ~v ELSE Val(x)

\* ak.fill_none(x, v) on one entry
fill_none(x, v) == IF IsNone(x) THEN v ELSE Val(x)

\* a ufunc of two option-typed entries: missing wherever an input is missing
\* (the & of the requirement arrays)
And3(a, b) == IF IsNone(a) \/ IsNone(b) THEN None ELSE Some(Val(a) /\ Val(b))

Abs(x) == IF x < 0 THEN -x ELSE x

Range(s) == {s[i] : i \in DOMAIN s}

RECURSIVE SumSeq(_)
SumSeq(s) == IF s = <<>> THEN 0 ELSE Head(s) + SumSeq(Tail(s))

RECURSIVE AndAll(_)
\* left-to-right & of a sequence of option entries
AndAll(s) == IF Len(s) = 1 THEN s[1] ELSE And3(AndAll(SubSeq(s, 1, Len(s) - 1)), s[Len(s)])

\* x[mask]: the entries of x at the events the mask selects, in order
RECURSIVE Compress(_, _)
Compress(x, mask) ==
    IF x = <<>> THEN <<>>
    ELSE (IF Head(mask) THEN <<Head(x)>> ELSE <<>>) \o Compress(Tail(x), Tail(mask))

----------------------------------------------------------------------------
(* Bounds of the model and constants of the program.                       *)

MaxEvents == 2

ElePtMin == 34
JetEleDR == 5
MuJetDR == 4
PtRatioMaxTenths == 6
RelIsoMax == 50
DzMax == 10
DxyMax == 2
Ip3dMax == 200
QCDPtRatioPct == 75
DilepMuPt == 12
DilepElePt == 15
WmassMin == 55
MaxJets == 3
TTMuPt == 30
TTElePt == 30
TTLepDR == 4
TTMinJets == 2
ClipValue == -2

----------------------------------------------------------------------------
(* The events the batches are built from.                                  *)

Ele(pt, id, charge, eta, iso, dz, dxy, ip3d, wmass, lsf) ==
    [pt |-> pt, id |-> id, charge |-> charge, eta |-> eta, pfRelIso03_all |-> iso,
     dz |-> dz, dxy |-> dxy, ip3d |-> ip3d, wmass |-> wmass, lsf |-> lsf]

Mu(pt, idiso, soft, charge, eta, lsf) ==
    [pt |-> pt, idiso |-> idiso, soft |-> soft, charge |-> charge, eta |-> eta,
     lsf |-> lsf]

Jet(pt, id, eta, mu1, hf, pf, b, c, fb, fc, cvl, cvb, fcvl, fcvb, ntrk) ==
    [pt |-> pt, id |-> id, eta |-> eta, muonIdx1 |-> mu1, muonIdx2 |-> -1,
     DeepCSV_jetNSelectedTracks |-> ntrk,
     hadronFlavour |-> hf, partonFlavour |-> pf,
     btagDeepB |-> b, btagDeepC |-> c, btagDeepFlavB |-> fb, btagDeepFlavC |-> fc,
     btagDeepCvL |-> cvl, btagDeepCvB |-> cvb, btagDeepFlavCvL |-> fcvl,
     btagDeepFlavCvB |-> fcvb]

Event(hlt, lumi, gw, puw, met, eles, mus, jets) ==
    [HLT |-> hlt, lumi |-> lumi, genWeight |-> gw, puWeight |-> puw, MET |-> [pt |-> met],
     Electron |-> eles, Muon |-> mus, Jet |-> jets]

AllPaths == {"Ele32_WPTight_Gsf_L1DoubleEG", "Ele35_WPTight_Gsf", "IsoMu24", "IsoMu27"}

\* jets: the muon jet with untagged (negative) discriminants, a tagged charm
\* jet, a light jet whose parton flavour is 0, a b jet
JetMuNeg == Jet(60, TRUE, 0, 0, 4, 4, -10, -1, -10, 3, -10, -1, 2, -10, 3)
JetC == Jet(50, TRUE, 20, -1, 4, 4, 3, 6, 2, 7, 8, 5, 9, 4, 5)
JetL == Jet(45, TRUE, -20, -1, 0, 0, 1, -10, 0, 2, -1, 3, 1, 0, 2)
JetB == Jet(40, TRUE, 30, -1, 5, 5, 9, 1, 8, -10, 2, 1, -10, 3, 6)
\* a light-quark jet: hadron flavour 0, parton flavour not 0
JetQ == Jet(44, TRUE, -30, -1, 0, 2, 4, 2, 3, 1, 6, 2, 3, 5, 1)
\* a jet within the separation thresholds of the electrons
JetNear == Jet(42, TRUE, 12, -1, 0, 1, 2, 3, 1, 4, 5, 6, 7, 2, 4)

EleIso == Ele(50, TRUE, -1, 10, 10, 2, 1, 50, 80, 2)
EleTT == Ele(40, TRUE, -1, 10, 10, 2, 1, 50, 80, 2)
MuSoft == Mu(8, FALSE, TRUE, 1, 1, 3)
MuSoftSS == Mu(8, FALSE, TRUE, -1, 1, 3)
MuIso == Mu(35, TRUE, FALSE, 1, -10, 3)
MuIsoSS == Mu(35, TRUE, FALSE, -1, -10, 3)

\* passes the ctag selection with one jet (the muon jet)
EvW1 == Event({"Ele32_WPTight_Gsf_L1DoubleEG", "IsoMu24"}, TRUE, 2, 1, 30,
              <<EleIso>>, <<MuSoft>>, <<JetMuNeg>>)
\* passes the ctag selection with two jets, same-sign leptons
EvW2 == Event({"Ele32_WPTight_Gsf_L1DoubleEG", "Ele35_WPTight_Gsf"}, TRUE, 1, 2, 45,
              <<EleIso>>, <<MuSoftSS>>, <<JetMuNeg, JetC>>)
\* passes the ttdilep selection with two jets
EvTT2 == Event({"IsoMu24"}, TRUE, 3, 1, 20, <<EleTT>>, <<MuIso>>, <<JetL, JetB>>)
\* passes the ttdilep selection with three jets
EvTT3 == Event({"IsoMu24", "IsoMu27", "Ele35_WPTight_Gsf"}, TRUE, -1, 1, 25,
               <<EleTT>>, <<MuIso>>, <<JetC, JetQ, JetB>>)
\* no lepton at all: every lepton-based requirement is missing or False
EvNoLep == Event({"Ele32_WPTight_Gsf_L1DoubleEG", "IsoMu24"}, TRUE, 1, 1, 10,
                 <<>>, <<>>, <<JetC>>)
\* the leptons of EvW2 and of EvTT2 and a jet next to the electron, but no
\* trigger fired and a bad lumi block
EvNoTrig == Event({}, FALSE, 1, 1, 30, <<EleIso>>, <<MuSoft, MuIsoSS>>, <<JetMuNeg, JetNear, JetB>>)

EventPool == {EvW1, EvW2, EvTT2, EvTT3, EvNoLep, EvNoTrig}

RECURSIVE SeqsUpTo(_, _)
SeqsUpTo(S, n) ==
    IF n = 0 THEN {<<>>}
    ELSE LET shorter == SeqsUpTo(S, n - 1)
         IN  shorter \cup {Append(s, x) : s \in {t \in shorter : Len(t) = n - 1}, x \in S}

Batches == SeqsUpTo(EventPool, MaxEvents)

TriggerLists(ch) ==
    IF ch = "ctag"
    THEN {<<"Ele32_WPTight_Gsf_L1DoubleEG">>,
          <<"Ele32_WPTight_Gsf_L1DoubleEG", "Ele35_WPTight_Gsf">>}
    ELSE {<<"IsoMu24">>, <<"IsoMu24", "IsoMu27">>}

Schemas(ch) ==
    IF ch = "ctag" THEN SUBSET {"Ele32_WPTight_Gsf_L1DoubleEG", "Ele35_WPTight_Gsf"}
    ELSE SUBSET {"IsoMu24", "IsoMu27"}

----------------------------------------------------------------------------
(* sumw, lumi mask and trigger requirement (the same code in both files).   *)

\* sumw as the event count for simulation too
SumwCount(real, evs) == Len(evs)

\* output["sumw"]
Sumw(real, evs) ==
    IF real THEN Len(evs) ELSE SumSeq([i \in DOMAIN evs |-> evs[i].genWeight])

\* req_lumi: all ones, replaced by the lumi mask for real data
ReqLumi(real, evs) == [i \in DOMAIN evs |-> IF real THEN evs[i].lumi ELSE TRUE]

\* checkHLT = [hasattr(events.HLT, _trig) for _trig in triggers]
checkHLT(trigs, paths) == [k \in DOMAIN trigs |-> trigs[k] \in paths]

\* raising as soon as one path is absent
HLTAnyInvalid(trigs, paths) ==
    \E k \in DOMAIN trigs : checkHLT(trigs, paths)[k] = FALSE

\* ak.all(checkHLT == False): the branch that raises ValueError
HLTAllInvalid(trigs, paths) ==
    \A k \in DOMAIN trigs : checkHLT(trigs, paths)[k] = FALSE

\* ak.any(checkHLT == False): the branch that prints
HLTSomeInvalid(trigs, paths) ==
    \E k \in DOMAIN trigs : checkHLT(trigs, paths)[k] = FALSE

\* np.array(triggers)[~checkHLT]
HLTMissing(trigs, paths) ==
    SelectSeq(trigs, LAMBDA t : ~(t \in paths))

\* trig_arrs: the requested paths the schema has
trig_arrs(trigs, paths) == SelectSeq(trigs, LAMBDA t : t \in paths)

\* req_trig: zeros, OR-ed with every array of trig_arrs
ReqTrig(trigs, paths, evs) ==
    [i \in DOMAIN evs |->
        \E k \in DOMAIN trig_arrs(trigs, paths) :
            trig_arrs(trigs, paths)[k] \in evs[i].HLT]

----------------------------------------------------------------------------
(* Object selection.  A padded collection is a sequence of options.        *)

\* delta-R of two objects (metric_table entry)
dR(a, b) == Abs(a.eta - b.eta)

\* ak.pad_none(x, 1, axis=1) of one event's collection
pad_none1(x) == IF x = <<>> THEN <<None>> ELSE [k \in DOMAIN x |-> Some(x[k])]

\* ak.count(x.pt, axis=1) of a padded collection: the entries that are not missing
count(x) == Cardinality({k \in DOMAIN x : ~IsNone(x[k])})

\* the objects of a padded collection that are not missing
Present(x) == {Val(x[k]) : k \in {n \in DOMAIN x : ~IsNone(x[n])}}

\* x[mask] of an option-type collection x, keep being the entries the mask
\* is true at: a missing entry has a missing mask entry and stays in place
\* as missing
mask_opt(x, keep) == SelectSeq(x, LAMBDA v : IsNone(v) \/ Val(v) \in keep)

\* padding that adds a placeholder to every collection
pad_opt_always(x) == Append(x, None)

\* ak.pad_none(x, 1, axis=1) of an option-type collection
pad_opt(x) == IF x = <<>> THEN <<None>> ELSE x

(* ---- ctag_eWc_valid_sf.py ---- *)

\* events.Electron[(pt > 34) & ele_mvatightid]
W_iso_ele_all(e) == SelectSeq(e.Electron, LAMBDA l : l.pt > ElePtMin /\ l.id)

\* iso_ele after pad_none and [:, 0]
W_iso_ele(e) == pad_none1(W_iso_ele_all(e))[1]

\* events.Jet[jet_id & all(metric_table(iso_ele) > 0.5)]
W_event_jet(e) ==
    SelectSeq(e.Jet, LAMBDA j :
        j.id /\ (IsNone(W_iso_ele(e)) \/ dR(j, Val(W_iso_ele(e))) > JetEleDR))

\* events.Muon[softmu_mask], padded
W_soft_muon(e) == pad_none1(SelectSeq(e.Muon, LAMBDA m : m.soft))

\* event_jet[all(metric_table(soft_muon) <= 0.4) & (muonIdx1 != -1 | muonIdx2 != -1)], padded
W_mu_jet(e) ==
    pad_none1(SelectSeq(W_event_jet(e), LAMBDA j :
        /\ \A m \in Present(W_soft_muon(e)) : dR(j, m) <= MuJetDR
        /\ (j.muonIdx1 # -1 \/ j.muonIdx2 # -1)))

\* the selections of lines 102-127 applied to a collection x that may be
\* padded already, in the event e the collection belongs to
Re_W_iso_ele(x) == pad_opt(mask_opt(x, {l \in Present(x) : l.pt > ElePtMin /\ l.id}))

Re_W_soft_muon(x) == pad_opt(mask_opt(x, {m \in Present(x) : m.soft}))

Re_W_event_jet(x, e) == W_event_jet([e EXCEPT !.Jet = x])

Re_W_mu_jet(x, e) ==
    pad_opt(mask_opt(x, {j \in Present(x) :
        /\ \A m \in Present(W_soft_muon(e)) : dR(j, m) <= MuJetDR
        /\ (j.muonIdx1 # -1 \/ j.muonIdx2 # -1)}))

W_req_ele(e) == Some(Len(W_iso_ele_all(e)) = 1)

W_req_jets(e) == Some(Len(W_event_jet(e)) >= 1 /\ Len(W_event_jet(e)) <= MaxJets)

W_req_softmu(e) == Some(count(W_soft_muon(e)) >= 1)

W_req_mujet(e) == Some(count(W_mu_jet(e)) >= 1)

\* (soft_muon[:, 0].pt / mu_jet[:, 0].pt) < 0.6
W_req_pTratio(e) ==
    IF IsNone(W_soft_muon(e)[1]) \/ IsNone(W_mu_jet(e)[1]) THEN None
    ELSE Some(10 * Val(W_soft_muon(e)[1]).pt < PtRatioMaxTenths * Val(W_mu_jet(e)[1]).pt)

W_req_QCDveto(e) ==
    IF IsNone(W_iso_ele(e)) \/ IsNone(W_mu_jet(e)[1]) THEN None
    ELSE LET l == Val(W_iso_ele(e))
             j == Val(W_mu_jet(e)[1])
         IN  Some(/\ l.pfRelIso03_all < RelIsoMax
                  /\ Abs(l.dz) < DzMax
                  /\ Abs(l.dxy) < DxyMax
                  /\ l.ip3d < Ip3dMax
                  /\ (100 * l.pt < 0 \/ 100 * l.pt > QCDPtRatioPct * j.pt))

W_req_dilepveto(e) ==
    Some(Len(SelectSeq(e.Muon, LAMBDA m : m.pt > DilepMuPt /\ m.idiso))
         + Len(SelectSeq(e.Electron, LAMBDA l : l.pt > DilepElePt /\ l.id)) # 2)

\* (MET + iso_ele).mass > 55; wmass is that mass for the electron
W_req_Wmass(e) ==
    IF IsNone(W_iso_ele(e)) THEN None ELSE Some(Val(W_iso_ele(e)).wmass > WmassMin)

(* ---- ttdilep_valid_sf.py ---- *)

\* events.Muon after lines 98-101
T_Muon(e) == pad_none1(SelectSeq(e.Muon, LAMBDA m : m.pt > TTMuPt /\ m.idiso))

\* events.Electron after lines 106-109
T_Electron(e) == pad_none1(SelectSeq(e.Electron, LAMBDA l : l.pt > TTElePt /\ l.id))

T_event_jet(e) ==
    SelectSeq(e.Jet, LAMBDA j :
        /\ j.id
        /\ \A m \in Present(T_Muon(e)) : dR(j, m) > TTLepDR
        /\ \A l \in Present(T_Electron(e)) : dR(j, l) > TTLepDR)

\* the selections of lines 98-117 applied to a collection x that may be
\* padded already, in the event e the collection belongs to
Re_T_Muon(x) == pad_opt(mask_opt(x, {m \in Present(x) : m.pt > TTMuPt /\ m.idiso}))

Re_T_Electron(x) == pad_opt(mask_opt(x, {l \in Present(x) : l.pt > TTElePt /\ l.id}))

Re_T_event_jet(x, e) == T_event_jet([e EXCEPT !.Jet = x])

T_req_muon(e) == Some(count(T_Muon(e)) = 1)

T_req_ele(e) == Some(count(T_Electron(e)) = 1)

T_req_jets(e) == Some(Len(T_event_jet(e)) >= TTMinJets)

\* Electron[:, 0:1].charge * Muon[:, 0:1].charge == -1, fill_none(False), flatten
T_req_opposite_charge(e) ==
    Some(fill_none(
        IF IsNone(T_Electron(e)[1]) \/ IsNone(T_Muon(e)[1]) THEN None
        ELSE Some(Val(T_Electron(e)[1]).charge * Val(T_Muon(e)[1]).charge = -1),
        FALSE))

\* what lines 96-109 of ttdilep leave in events.Muon and events.Electron
T_mutate(evs) ==
    [i \in DOMAIN evs |->
        [evs[i] EXCEPT !.Muon = T_Muon(evs[i]), !.Electron = T_Electron(evs[i])]]

\* the batch after the object selection block
EventsAfterSel(ch, evs) == IF ch = "ctag" THEN evs ELSE T_mutate(evs)

\* the collections the object selection block leaves in local variables
Objs(ch, evs) ==
    IF ch = "ctag"
    THEN [iso_ele |-> [i \in DOMAIN evs |-> W_iso_ele(evs[i])],
          event_jet |-> [i \in DOMAIN evs |-> W_event_jet(evs[i])],
          soft_muon |-> [i \in DOMAIN evs |-> W_soft_muon(evs[i])],
          mu_jet |-> [i \in DOMAIN evs |-> W_mu_jet(evs[i])]]
    ELSE [event_jet |-> [i \in DOMAIN evs |-> T_event_jet(evs[i])]]

\* the requirement arrays of the cuts block, by the name the code gives them
Reqs(ch, evs) ==
    IF ch = "ctag"
    THEN [req_ele |-> [i \in DOMAIN evs |-> W_req_ele(evs[i])],
          req_jets |-> [i \in DOMAIN evs |-> W_req_jets(evs[i])],
          req_softmu |-> [i \in DOMAIN evs |-> W_req_softmu(evs[i])],
          req_mujet |-> [i \in DOMAIN evs |-> W_req_mujet(evs[i])],
          req_Wmass |-> [i \in DOMAIN evs |-> W_req_Wmass(evs[i])],
          req_dilepveto |-> [i \in DOMAIN evs |-> W_req_dilepveto(evs[i])],
          req_QCDveto |-> [i \in DOMAIN evs |-> W_req_QCDveto(evs[i])],
          req_pTratio |-> [i \in DOMAIN evs |-> W_req_pTratio(evs[i])]]
    ELSE [req_muon |-> [i \in DOMAIN evs |-> T_req_muon(evs[i])],
          req_ele |-> [i \in DOMAIN evs |-> T_req_ele(evs[i])],
          req_jets |-> [i \in DOMAIN evs |-> T_req_jets(evs[i])],
          req_opposite_charge |-> [i \in DOMAIN evs |-> T_req_opposite_charge(evs[i])]]

----------------------------------------------------------------------------
(* The event mask.                                                         *)

\* the operands of the & chain at event i, in the order of the code
MaskOperands(ch, trig, lumi, r, i) ==
    IF ch = "ctag"
    THEN <<Some(trig[i]), Some(lumi[i]), r.req_ele[i], r.req_jets[i], r.req_softmu[i],
           r.req_mujet[i], r.req_Wmass[i], r.req_dilepveto[i], r.req_QCDveto[i],
           r.req_pTratio[i]>>
    ELSE <<Some(trig[i]), Some(lumi[i]), r.req_muon[i], r.req_ele[i], r.req_jets[i],
           r.req_opposite_charge[i]>>

\* event_level = ak.fill_none(req_trig & req_lumi & ..., False)
EventLevel(ch, trig, lumi, r) ==
    [i \in DOMAIN trig |-> fill_none(AndAll(MaskOperands(ch, trig, lumi, r, i)), FALSE)]

----------------------------------------------------------------------------
(* Selected objects.  Sel(mask) lists the selected events; the k-th entry  *)
(* of every x[event_level] array belongs to event Sel(mask)[k].            *)

Sel(mask) == Compress([i \in DOMAIN mask |-> i], mask)

\* sjets: event_jet[event_level], cut to the two leading jets in ttdilep
sjets(ch, o, mask) ==
    [k \in DOMAIN Sel(mask) |->
        LET jets == o.event_jet[Sel(mask)[k]]
        IN  IF ch = "ctag" \/ Len(jets) <= 2 THEN jets ELSE SubSeq(jets, 1, 2)]

\* njet = ak.count(sjets.pt, axis=1)
njet(ch, o, mask) == [k \in DOMAIN Sel(mask) |-> Len(sjets(ch, o, mask)[k])]

\* shmu = iso_ele[event_level]
shmu(o, mask) == [k \in DOMAIN Sel(mask) |-> o.iso_ele[Sel(mask)[k]]]

\* ssmu = soft_muon[event_level][:, 0]
ssmu(o, mask) == [k \in DOMAIN Sel(mask) |-> o.soft_muon[Sel(mask)[k]][1]]

\* smuon_jet = mu_jet[event_level][:, 0]
smuon_jet(o, mask) == [k \in DOMAIN Sel(mask) |-> o.mu_jet[Sel(mask)[k]][1]]

\* osss = shmu.charge * ssmu.charge * -1 (missing where a lepton is missing)
osss(o, mask) ==
    [k \in DOMAIN Sel(mask) |->
        IF IsNone(shmu(o, mask)[k]) \/ IsNone(ssmu(o, mask)[k]) THEN None
        ELSE Some(Val(shmu(o, mask)[k]).charge * Val(ssmu(o, mask)[k]).charge * (-1))]

----------------------------------------------------------------------------
(* Weights (coffea.analysis_tools.Weights, storeIndividual=True).          *)

\* the scale factor of a lepton without the np.where on event_level
LepSFUnmasked(selected, lep) == IF ~IsNone(lep) THEN Val(lep).lsf ELSE 1

\* the scale factor of a lepton under np.where(event_level, SF, 1.0)
LepSF(selected, lep) == IF selected /\ ~IsNone(lep) THEN Val(lep).lsf ELSE 1

\* genweight registered whether or not the batch has the field
AddedWeightsAlways(ch, real, corr, evs, mask) ==
    <<[name |-> "genweight", w |-> [i \in DOMAIN evs |-> evs[i].genWeight]]>>

\* the weights.add calls of process(), in order; evs is the batch as the
\* weight block sees it (ttdilep: after events.Muon and events.Electron were
\* replaced)
AddedWeights(ch, real, corr, evs, mask) ==
    (IF ~real
     THEN <<[name |-> "genweight", w |-> [i \in DOMAIN evs |-> evs[i].genWeight]]>>
     ELSE <<>>)
    \o
    (IF ~real /\ corr
     THEN <<[name |-> "puweight", w |-> [i \in DOMAIN evs |-> evs[i].puWeight]],
            [name |-> "lep1sf",
             w |-> [i \in DOMAIN evs |->
                      LepSF(mask[i], IF ch = "ctag" THEN W_iso_ele(evs[i])
                                     ELSE evs[i].Muon[1])]],
            [name |-> "lep2sf",
             w |-> [i \in DOMAIN evs |->
                      LepSF(mask[i], IF ch = "ctag" THEN W_soft_muon(evs[i])[1]
                                     ELSE evs[i].Electron[1])]]>>
     ELSE <<>>)

RECURSIVE ProdAt(_, _)
ProdAt(ws, i) == IF ws = <<>> THEN 1 ELSE Head(ws).w[i] * ProdAt(Tail(ws), i)

\* weights.weight(): the product of the registered components, batch length n
Weight(ws, n) == [i \in 1..n |-> ProdAt(ws, i)]

\* weights.weight()[event_level]
SelWeight(ws, mask) == Compress(Weight(ws, Len(mask)), mask)

----------------------------------------------------------------------------
(* Flavour labels and scale factors.                                       *)

\* the label as the hadron flavour alone
FlavorHadronOnly(real, j) == IF real THEN 0 ELSE j.hadronFlavour

\* hadronFlavour + 1 * ((partonFlavour == 0) & (hadronFlavour == 0)); zeros for data
Flavor(real, j) ==
    IF real THEN 0
    ELSE j.hadronFlavour + (IF j.partonFlavour = 0 /\ j.hadronFlavour = 0 THEN 1 ELSE 0)

\* genflavor: one label per jet of sjets
genflavor(ch, real, o, mask) ==
    [k \in DOMAIN Sel(mask) |->
        [n \in DOMAIN sjets(ch, o, mask)[k] |-> Flavor(real, sjets(ch, o, mask)[k][n])]]

\* smflav: the label of the muon jet (ctag)
smflav(real, o, mask) ==
    [k \in DOMAIN Sel(mask) |->
        IF IsNone(smuon_jet(o, mask)[k]) THEN None
        ELSE Some(Flavor(real, Val(smuon_jet(o, mask)[k])))]

Families == {"jetsfs_c", "jetsfs_b", "csvsfs_c", "csvsfs_b"}

Systs == {"SF", "SFup", "SFdn"}

\* the correction object a family is read from
TableOf(fam) ==
    CASE fam = "jetsfs_c" -> "_deepjetc_sf"
      [] fam = "jetsfs_b" -> "_deepjetb_sf"
      [] fam = "csvsfs_c" -> "_deepcsvc_sf"
      [] fam = "csvsfs_b" -> "_deepcsvb_sf"

\* the variation tag passed for a key of the family's map
TagOf(fam, syst) ==
    IF fam \in {"jetsfs_c", "csvsfs_c"}
    THEN (CASE syst = "SF" -> "central" [] syst = "SFup" -> "TotalUncUp"
            [] syst = "SFdn" -> "TotalUncDown")
    ELSE (CASE syst = "SF" -> "central" [] syst = "SFup" -> "up_jes"
            [] syst = "SFdn" -> "down_jes")

\* the arguments of one lookup for jet j: getSF(flavour, CvL, CvB) for the
\* charm tables, eval(flavour, |eta|, pt, discr) for the b tables
LookupArgs(fam, j) ==
    CASE fam = "jetsfs_c" -> <<j.hadronFlavour, j.btagDeepFlavCvL, j.btagDeepFlavCvB>>
      [] fam = "jetsfs_b" -> <<j.hadronFlavour, Abs(j.eta), j.pt, j.btagDeepFlavB>>
      [] fam = "csvsfs_c" -> <<j.hadronFlavour, j.btagDeepCvL, j.btagDeepCvB>>
      [] fam = "csvsfs_b" -> <<j.hadronFlavour, Abs(j.eta), j.pt, j.btagDeepB>>

\* the correction tables: some fixed function of the tag and the arguments
TagShift(tag) ==
    IF tag = "central" THEN 0 ELSE IF tag \in {"TotalUncUp", "up_jes"} THEN 1 ELSE 2

TableEval(table, tag, args) == 1 + ((Abs(SumSeq(args)) + TagShift(tag)) % 3)

\* the jet indices the scale factors are computed for: the muon jet as
\* index 0 in ctag, range(2) in ttdilep
SFIndices(ch) == IF ch = "ctag" THEN {0} ELSE {0, 1}

\* the jets of the selected events a lookup of index idx is made for
SFJets(ch, o, mask, idx) ==
    IF ch = "ctag" THEN smuon_jet(o, mask)
    ELSE [k \in DOMAIN Sel(mask) |->
            IF idx + 1 \in DOMAIN sjets(ch, o, mask)[k]
            THEN Some(sjets(ch, o, mask)[k][idx + 1]) ELSE None]

\* the arguments of the lookups of one family and index, one entry per selected event
SFArgs(ch, o, mask, fam, idx) ==
    [k \in DOMAIN Sel(mask) |->
        IF IsNone(SFJets(ch, o, mask, idx)[k]) THEN None
        ELSE Some(LookupArgs(fam, Val(SFJets(ch, o, mask, idx)[k])))]

\* jetsfs_c, jetsfs_b, csvsfs_c, csvsfs_b: family -> index -> key -> per-event factor
SFMaps(ch, o, mask) ==
    [fam \in Families |->
        [idx \in SFIndices(ch) |->
            [syst \in Systs |->
                [k \in DOMAIN Sel(mask) |->
                    IF IsNone(SFArgs(ch, o, mask, fam, idx)[k]) THEN 1
                    ELSE TableEval(TableOf(fam), TagOf(fam, syst),
                                   Val(SFArgs(ch, o, mask, fam, idx)[k]))]]]]

\* the lookups the block makes: table, tag, jet index, per-event arguments
SFLookups(ch, o, mask) ==
    {[table |-> TableOf(fam), tag |-> TagOf(fam, syst), idx |-> idx,
      args |-> SFArgs(ch, o, mask, fam, idx)] :
        fam \in Families, idx \in SFIndices(ch), syst \in Systs}

\* the block of lines 240-347 (ctag) / 175-277 (ttdilep): disc_list exists,
\* and the tables are read, only for simulation with corrections
ScaleFactors(ch, real, corr, o, mask) ==
    IF ~real /\ corr
    THEN [defined |-> TRUE, maps |-> SFMaps(ch, o, mask), lookups |-> SFLookups(ch, o, mask)]
    ELSE [defined |-> FALSE, maps |-> [fam \in Families |-> <<>>], lookups |-> {}]

\* disc_list: the family a discriminant is mapped to
disc_list(d) ==
    CASE d \in {"btagDeepB", "btagDeepC"} -> "csvsfs_b"
      [] d \in {"btagDeepFlavB", "btagDeepFlavC"} -> "jetsfs_b"
      [] d \in {"btagDeepCvL", "btagDeepCvB"} -> "csvsfs_c"
      [] d \in {"btagDeepFlavCvL", "btagDeepFlavCvB"} -> "jetsfs_c"

\* m[idx] of a collections.defaultdict(dict): an empty dict for an index never set
DefaultGet(m, idx) == IF idx \in DOMAIN m THEN m[idx] ELSE <<>>

----------------------------------------------------------------------------
(* Histogram names.  The dispatch of the fill loop tests substrings of the *)
(* name and strips the jet index from it, so names are spelled out.        *)

BTAGDEEP == <<"b", "t", "a", "g", "D", "e", "e", "p">>

\* the characters of a string
Chars(s) ==
    CASE s = "_0" -> <<"_", "0">>
      [] s = "_1" -> <<"_", "1">>
      [] s = "0" -> <<"0">>
      [] s = "1" -> <<"1">>
      [] s = "Deep" -> <<"D", "e", "e", "p">>
      [] s = "btag" -> <<"b", "t", "a", "g">>
      [] s = "btagDeep" -> <<"b", "t", "a", "g", "D", "e", "e", "p">>
      [] s = "jet_" -> <<"j", "e", "t", "_">>
      [] s = "mu" -> <<"m", "u">>
      [] s = "hl_" -> <<"h", "l", "_">>
      [] s = "soft_l" -> <<"s", "o", "f", "t", "_", "l">>
      [] s = "soft_l_" -> <<"s", "o", "f", "t", "_", "l", "_">>
      [] s = "MET" -> <<"M", "E", "T">>
      [] s = "MET_" -> <<"M", "E", "T", "_">>
      [] s = "mujet_" -> <<"m", "u", "j", "e", "t", "_">>
      [] s = "mu_" -> <<"m", "u", "_">>
      [] s = "ele_" -> <<"e", "l", "e", "_">>
      [] s = "jet" -> <<"j", "e", "t">>
      [] s = "dr" -> <<"d", "r">>
      [] s = "njet" -> <<"n", "j", "e", "t">>
      [] s = "sumw" -> <<"s", "u", "m", "w">>
      [] s = "dr_mujet0" -> <<"d", "r", "_", "m", "u", "j", "e", "t", "0">>
      [] s = "dr_mujet1" -> <<"d", "r", "_", "m", "u", "j", "e", "t", "1">>
      [] s = "pt" -> <<"p", "t">>
      [] s = "eta" -> <<"e", "t", "a">>
      [] s = "charge" -> <<"c", "h", "a", "r", "g", "e">>
      [] s = "dz" -> <<"d", "z">>
      [] s = "dxy" -> <<"d", "x", "y">>
      [] s = "ip3d" -> <<"i", "p", "3", "d">>
      [] s = "pfRelIso03_all" -> <<"p", "f", "R", "e", "l", "I", "s", "o", "0", "3", "_", "a", "l", "l">>
      [] s = "DeepCSV_jetNSelectedTracks" ->
            <<"D", "e", "e", "p", "C", "S", "V", "_", "j", "e", "t", "N", "S", "e", "l", "e", "c", "t", "e", "d", "T", "r", "a", "c", "k", "s">>
      [] s = "jet_pt" -> <<"j", "e", "t", "_", "p", "t">>
      [] s = "mujet_pt" -> <<"m", "u", "j", "e", "t", "_", "p", "t">>
      [] s = "hl_pt" -> <<"h", "l", "_", "p", "t">>
      [] s = "soft_l_pt" -> <<"s", "o", "f", "t", "_", "l", "_", "p", "t">>
      [] s = "MET_pt" -> <<"M", "E", "T", "_", "p", "t">>
      [] s = "hl_ptratio" -> <<"h", "l", "_", "p", "t", "r", "a", "t", "i", "o">>
      [] s = "soft_l_ptratio" ->
            <<"s", "o", "f", "t", "_", "l", "_", "p", "t", "r", "a", "t", "i", "o">>
      [] s = "dr_lmujetsmu" -> <<"d", "r", "_", "l", "m", "u", "j", "e", "t", "s", "m", "u">>
      [] s = "dr_lmujethmu" -> <<"d", "r", "_", "l", "m", "u", "j", "e", "t", "h", "m", "u">>
      [] s = "dr_lmusmu" -> <<"d", "r", "_", "l", "m", "u", "s", "m", "u">>
      [] s = "z_pt" -> <<"z", "_", "p", "t">>
      [] s = "z_eta" -> <<"z", "_", "e", "t", "a">>
      [] s = "z_phi" -> <<"z", "_", "p", "h", "i">>
      [] s = "z_mass" -> <<"z", "_", "m", "a", "s", "s">>
      [] s = "w_pt" -> <<"w", "_", "p", "t">>
      [] s = "w_eta" -> <<"w", "_", "e", "t", "a">>
      [] s = "w_phi" -> <<"w", "_", "p", "h", "i">>
      [] s = "w_mass" -> <<"w", "_", "m", "a", "s", "s">>
      [] s = "mu_pt" -> <<"m", "u", "_", "p", "t">>
      [] s = "ele_pt" -> <<"e", "l", "e", "_", "p", "t">>
      [] s = "jet0_pt" -> <<"j", "e", "t", "0", "_", "p", "t">>
      [] s = "jet1_pt" -> <<"j", "e", "t", "1", "_", "p", "t">>
      [] s = "jet0_" -> <<"j", "e", "t", "0", "_">>
      [] s = "jet1_" -> <<"j", "e", "t", "1", "_">>
      [] s = "btagDeepB" -> BTAGDEEP \o <<"B">>
      [] s = "btagDeepB_0" -> BTAGDEEP \o <<"B", "_", "0">>
      [] s = "btagDeepB_1" -> BTAGDEEP \o <<"B", "_", "1">>
      [] s = "btagDeepC" -> BTAGDEEP \o <<"C">>
      [] s = "btagDeepC_0" -> BTAGDEEP \o <<"C", "_", "0">>
      [] s = "btagDeepC_1" -> BTAGDEEP \o <<"C", "_", "1">>
      [] s = "btagDeepFlavB" -> BTAGDEEP \o <<"F", "l", "a", "v", "B">>
      [] s = "btagDeepFlavB_0" -> BTAGDEEP \o <<"F", "l", "a", "v", "B", "_", "0">>
      [] s = "btagDeepFlavB_1" -> BTAGDEEP \o <<"F", "l", "a", "v", "B", "_", "1">>
      [] s = "btagDeepFlavC" -> BTAGDEEP \o <<"F", "l", "a", "v", "C">>
      [] s = "btagDeepFlavC_0" -> BTAGDEEP \o <<"F", "l", "a", "v", "C", "_", "0">>
      [] s = "btagDeepFlavC_1" -> BTAGDEEP \o <<"F", "l", "a", "v", "C", "_", "1">>
      [] s = "btagDeepCvL" -> BTAGDEEP \o <<"C", "v", "L">>
      [] s = "btagDeepCvL_0" -> BTAGDEEP \o <<"C", "v", "L", "_", "0">>
      [] s = "btagDeepCvL_1" -> BTAGDEEP \o <<"C", "v", "L", "_", "1">>
      [] s = "btagDeepCvB" -> BTAGDEEP \o <<"C", "v", "B">>
      [] s = "btagDeepCvB_0" -> BTAGDEEP \o <<"C", "v", "B", "_", "0">>
      [] s = "btagDeepCvB_1" -> BTAGDEEP \o <<"C", "v", "B", "_", "1">>
      [] s = "btagDeepFlavCvL" -> BTAGDEEP \o <<"F", "l", "a", "v", "C", "v", "L">>
      [] s = "btagDeepFlavCvL_0" -> BTAGDEEP \o <<"F", "l", "a", "v", "C", "v", "L", "_", "0">>
      [] s = "btagDeepFlavCvL_1" -> BTAGDEEP \o <<"F", "l", "a", "v", "C", "v", "L", "_", "1">>
      [] s = "btagDeepFlavCvB" -> BTAGDEEP \o <<"F", "l", "a", "v", "C", "v", "B">>
      [] s = "btagDeepFlavCvB_0" -> BTAGDEEP \o <<"F", "l", "a", "v", "C", "v", "B", "_", "0">>
      [] s = "btagDeepFlavCvB_1" -> BTAGDEEP \o <<"F", "l", "a", "v", "C", "v", "B", "_", "1">>

Discriminants ==
    {"btagDeepB", "btagDeepC", "btagDeepFlavB", "btagDeepFlavC",
     "btagDeepCvL", "btagDeepCvB", "btagDeepFlavCvL", "btagDeepFlavCvB"}

\* the histograms filled by name after the loop
W_RestNames ==
    <<"njet", "hl_ptratio", "soft_l_ptratio", "dr_lmujetsmu", "dr_lmujethmu", "dr_lmusmu",
      "z_pt", "z_eta", "z_phi", "z_mass", "w_pt", "w_eta", "w_phi", "w_mass">>

T_RestNames == <<"dr_mujet0", "dr_mujet1", "njet">>

\* <discriminant>_<jet index>, for both indices
DiscNames ==
    <<"btagDeepB_0", "btagDeepB_1", "btagDeepC_0", "btagDeepC_1",
      "btagDeepFlavB_0", "btagDeepFlavB_1", "btagDeepFlavC_0", "btagDeepFlavC_1",
      "btagDeepCvL_0", "btagDeepCvL_1", "btagDeepCvB_0", "btagDeepCvB_1",
      "btagDeepFlavCvL_0", "btagDeepFlavCvL_1", "btagDeepFlavCvB_0", "btagDeepFlavCvB_1">>

\* the keys of output, in iteration order: "sumw", then the histograms of
\* the channel: a tagger input, the jet and lepton kinematics, the
\* discriminants and the histograms filled after the loop
HistOrder(ch) ==
    IF ch = "ctag"
    THEN <<"sumw", "DeepCSV_jetNSelectedTracks", "jet_pt", "mujet_pt", "hl_pt", "soft_l_pt",
           "MET_pt">> \o DiscNames \o W_RestNames
    ELSE <<"sumw", "DeepCSV_jetNSelectedTracks", "mu_pt", "ele_pt", "jet0_pt", "jet1_pt">>
         \o DiscNames \o T_RestNames

HistNames(ch) == Range(HistOrder(ch)) \ {"sumw"}

\* pat in name (Python's substring test)
Contains(name, pat) ==
    LET a == Chars(name)
        b == Chars(pat)
    IN  \E i \in 0..(Len(a) - Len(b)) : SubSeq(a, i + 1, i + Len(b)) = b

RECURSIVE RemoveAll(_, _)
\* a.replace(b, ""): every occurrence of b removed, left to right
RemoveAll(a, b) ==
    IF Len(a) < Len(b) THEN a
    ELSE IF SubSeq(a, 1, Len(b)) = b THEN RemoveAll(SubSeq(a, Len(b) + 1, Len(a)), b)
    ELSE <<Head(a)>> \o RemoveAll(Tail(a), b)

\* the jet fields a histogram name can name
JetFields == Discriminants \cup {"pt", "eta", "DeepCSV_jetNSelectedTracks"}

\* the fields of the electron and muon records a histogram name can name
EleFields == {"pt", "eta", "charge", "dz", "dxy", "ip3d", "pfRelIso03_all"}

MuFields == {"pt", "eta", "charge"}

\* histname.replace(pat, "") in x.fields
HasField(fields, name, pat) ==
    \E f \in fields : Chars(f) = RemoveAll(Chars(name), Chars(pat))

\* the fields of events.MET a histogram name can name
METFields == {"pt"}

\* the field of x spelled c; None if x has no such field
FieldIn(fields, c) ==
    IF \E f \in fields : Chars(f) = c
    THEN Some(CHOOSE f \in fields : Chars(f) = c) ELSE None

\* histname.replace(pat, "") as a jet field; None if the jets have no such field
FieldOf(name, pat) == FieldIn(JetFields, RemoveAll(Chars(name), Chars(pat)))

----------------------------------------------------------------------------
(* The fill loop.  A fill call is [hist, syst, keys, weight]: the           *)
(* histogram, the syst argument ("" if the histogram has no such axis),    *)
(* and per filled entry the values of its axes and its weight.  c is the       *)
(* context of the loop: [ch, real, corr, evs, o, mask, ws, sf], evs being    *)
(* the batch as the selection block left it.                               *)

Raise == [raised |-> TRUE, calls |-> <<>>]

Calls(cs) == [raised |-> FALSE, calls |-> cs]

\* clipping at the sentinel only: np.where(x < -0.2, -0.2, x)
ClipBelowFloor(x) == IF x < ClipValue THEN ClipValue ELSE x

\* np.where(x < 0, -0.2, x)
Clip(x) == IF x < 0 THEN ClipValue ELSE x

\* the variants filled for every simulated batch
WantsSystAnySim(real, corr) == ~real

\* the condition under which the systematic variants are filled
WantsSyst(real, corr) == ~real /\ corr

\* the subleading-jet branch without its multiplicity guard
SubleadingUnguarded(nj) == TRUE

\* the guard as any(i > 1 for i in njet)
SubleadingGuardAny(nj) == \E k \in DOMAIN nj : nj[k] > 1

\* the multiplicity guard of the subleading-jet branch: all(i > 1 for i in njet)
SubleadingGuard(nj) == \A k \in DOMAIN nj : nj[k] > 1

\* a selected event of ctag whose electron, soft muon or muon jet is missing
SelectedMissing(c) ==
    c.ch = "ctag" /\
    \E k \in DOMAIN Sel(c.mask) :
        \/ IsNone(shmu(c.o, c.mask)[k])
        \/ IsNone(ssmu(c.o, c.mask)[k])
        \/ IsNone(smuon_jet(c.o, c.mask)[k])

\* the weight of the fills: weights.weight()[event_level], times osss in ctag
EvWeight(c) ==
    [k \in DOMAIN Sel(c.mask) |->
        IF c.ch = "ctag"
        THEN SelWeight(c.ws, c.mask)[k] * Val(osss(c.o, c.mask)[k])
        ELSE SelWeight(c.ws, c.mask)[k]]

\* the keys of disc_list[field][idx], in a fixed order
SystKeys(c, field, idx) ==
    SelectSeq(<<"SF", "SFup", "SFdn">>,
              LAMBDA sy : sy \in DOMAIN DefaultGet(c.sf.maps[disc_list(field)], idx))

\* the fills of one discriminant histogram for jet index idx: "noSF", then
\* one fill per key of disc_list[field][idx]; jets and flavs are the
\* targeted jet and its label of every selected event
DiscCalls(c, h, idx, jets, flavs) ==
    LET fld == FieldOf(h, IF idx = 0 THEN "_0" ELSE "_1")
        field == Val(fld)
        w == EvWeight(c)
        keysOf(sy) == [k \in DOMAIN jets |->
                         [flav |-> flavs[k], syst |-> sy, discr |-> Clip(jets[k][field])]]
        nosf == [hist |-> h, syst |-> "noSF", keys |-> keysOf("noSF"), weight |-> w]
        systs == SystKeys(c, field, idx)
        variant(sy) ==
            [hist |-> h, syst |-> sy, keys |-> keysOf(sy),
             weight |-> [k \in DOMAIN jets |->
                           w[k] * c.sf.maps[disc_list(field)][idx][sy][k]]]
    IN  IF IsNone(fld) THEN Raise
        ELSE IF WantsSyst(c.real, c.corr)
        THEN IF ~c.sf.defined THEN Raise
             ELSE Calls(<<nosf>> \o [n \in DOMAIN systs |-> variant(systs[n])])
        ELSE Calls(<<nosf>>)

RECURSIVE flatten(_)
\* flatten(x): the entries of a ragged array, event after event
flatten(x) == IF x = <<>> THEN <<>> ELSE Head(x) \o flatten(Tail(x))

\* the event's weight on its leading jet only
BroadcastLeading(w, jets) ==
    flatten([k \in DOMAIN jets |-> [n \in DOMAIN jets[k] |-> IF n = 1 THEN w[k] ELSE 1]])

\* flatten(ak.broadcast_arrays(w, sjets["pt"])[0])
Broadcast(w, jets) == flatten([k \in DOMAIN jets |-> [n \in DOMAIN jets[k] |-> w[k]]])

\* the fill of a histogram of a ragged per-jet quantity:
\* h.fill(flatten(genflavor), flatten(sjets[field]), weight=flatten(broadcast))
JetCalls(c, h, fld) ==
    LET jets == sjets(c.ch, c.o, c.mask)
        gf == genflavor(c.ch, c.real, c.o, c.mask)
    IN  IF IsNone(fld) THEN Raise
        ELSE Calls(<<[hist |-> h, syst |-> "",
                     keys |-> flatten([k \in DOMAIN jets |->
                                 [n \in DOMAIN jets[k] |->
                                     [flav |-> gf[k][n], val |-> jets[k][n][Val(fld)]]]]),
                     weight |-> Broadcast(EvWeight(c), jets)]>>)

\* the fill of a histogram of a per-event quantity, keys being its entries
FlatCall(c, h, keys) ==
    Calls(<<[hist |-> h, syst |-> "", keys |-> keys, weight |-> EvWeight(c)]>>)

\* ctag lines 373-395: the hl_, soft_l_, MET_ and mujet_ branches
W_LeptonCalls(c, h, b) ==
    LET S == DOMAIN Sel(c.mask)
        fld == CASE b = "hl" -> FieldIn(EleFields, RemoveAll(Chars(h), Chars("hl_")))
                 [] b = "soft_l" -> FieldIn(MuFields, RemoveAll(Chars(h), Chars("soft_l_")))
                 [] b = "MET" -> FieldIn(METFields, RemoveAll(Chars(h), Chars("MET_")))
                 [] b = "mujet" -> FieldOf(h, "mujet_")
        f == Val(fld)
    IN  IF IsNone(fld) THEN Raise
        ELSE CASE b = "hl" ->
                    FlatCall(c, h, [k \in S |-> [val |-> Val(shmu(c.o, c.mask)[k])[f]]])
               [] b = "soft_l" ->
                    FlatCall(c, h, [k \in S |-> [val |-> Val(ssmu(c.o, c.mask)[k])[f]]])
               [] b = "MET" ->
                    FlatCall(c, h, [k \in S |-> [val |-> c.evs[Sel(c.mask)[k]].MET[f]]])
               [] b = "mujet" ->
                    FlatCall(c, h, [k \in S |->
                        [flav |-> Val(smflav(c.real, c.o, c.mask)[k]),
                         val |-> Val(smuon_jet(c.o, c.mask)[k])[f]]])

\* ctag, lines 352-448: the branch of the if/elif chain a name takes
W_Branch(c, h) ==
    IF Contains(h, "Deep") /\ ~Contains(h, "btag") THEN "taginput"
    ELSE IF Contains(h, "jet_") /\ ~Contains(h, "mu") THEN "jetkin"
    ELSE IF Contains(h, "hl_") /\ HasField(EleFields, h, "hl_") THEN "hl"
    ELSE IF Contains(h, "soft_l") /\ HasField(MuFields, h, "soft_l_") THEN "soft_l"
    ELSE IF Contains(h, "MET") THEN "MET"
    ELSE IF Contains(h, "mujet_") THEN "mujet"
    ELSE IF Contains(h, "btagDeep") /\ Contains(h, "0") THEN "disc0"
    ELSE IF /\ Contains(h, "btagDeep") /\ Contains(h, "1")
            /\ SubleadingGuard(njet(c.ch, c.o, c.mask)) THEN "disc1"
    ELSE "none"

W_NameCalls(c, h) ==
    LET b == W_Branch(c, h)
    IN  IF b = "taginput" THEN JetCalls(c, h, FieldIn(JetFields, Chars(h)))
        ELSE IF b = "jetkin" THEN JetCalls(c, h, FieldOf(h, "jet_"))
        ELSE IF b \in {"hl", "soft_l", "MET", "mujet"} THEN W_LeptonCalls(c, h, b)
        ELSE IF b = "disc0"
        THEN DiscCalls(c, h, 0,
                       [k \in DOMAIN Sel(c.mask) |-> Val(smuon_jet(c.o, c.mask)[k])],
                       [k \in DOMAIN Sel(c.mask) |-> Val(smflav(c.real, c.o, c.mask)[k])])
        ELSE IF b = "disc1"
        THEN IF \E k \in DOMAIN Sel(c.mask) : Len(sjets(c.ch, c.o, c.mask)[k]) < 2
             THEN Raise
             ELSE DiscCalls(c, h, 1,
                       [k \in DOMAIN Sel(c.mask) |-> sjets(c.ch, c.o, c.mask)[k][2]],
                       [k \in DOMAIN Sel(c.mask) |->
                           genflavor(c.ch, c.real, c.o, c.mask)[k][2]])
        ELSE Calls(<<>>)

\* the chain without the exclusion of "njet" from the jet-kinematics branch
T_BranchNjetIn(h) ==
    IF Contains(h, "Deep") /\ ~Contains(h, "btag") THEN "taginput"
    ELSE IF Contains(h, "btagDeep") THEN "disc"
    ELSE IF Contains(h, "mu_") /\ HasField(MuFields, h, "mu_") THEN "mu"
    ELSE IF Contains(h, "ele_") /\ HasField(EleFields, h, "ele_") THEN "ele"
    ELSE IF Contains(h, "jet") /\ ~Contains(h, "dr") THEN "jetkin"
    ELSE "none"

\* ttdilep, lines 282-345
T_Branch(h) ==
    IF Contains(h, "Deep") /\ ~Contains(h, "btag") THEN "taginput"
    ELSE IF Contains(h, "btagDeep") THEN "disc"
    ELSE IF Contains(h, "mu_") /\ HasField(MuFields, h, "mu_") THEN "mu"
    ELSE IF Contains(h, "ele_") /\ HasField(EleFields, h, "ele_") THEN "ele"
    ELSE IF Contains(h, "jet") /\ ~Contains(h, "dr") /\ "njet" # h THEN "jetkin"
    ELSE "none"

\* one pass of "for i in range(2)" of the btagDeep branch
T_DiscPass(c, h, i) ==
    IF \E k \in DOMAIN Sel(c.mask) : Len(sjets(c.ch, c.o, c.mask)[k]) < i + 1
    THEN Raise
    ELSE IF Contains(h, IF i = 0 THEN "0" ELSE "1")
    THEN DiscCalls(c, h, i,
                   [k \in DOMAIN Sel(c.mask) |-> sjets(c.ch, c.o, c.mask)[k][i + 1]],
                   [k \in DOMAIN Sel(c.mask) |->
                       genflavor(c.ch, c.real, c.o, c.mask)[k][i + 1]])
    ELSE Calls(<<>>)

\* two results in sequence: the first raise ends the loop
Then(a, b) ==
    IF a.raised \/ b.raised THEN Raise ELSE Calls(a.calls \o b.calls)

\* ttdilep lines 326-336: the mu_ and ele_ branches
T_LeptonCalls(c, h, b) ==
    LET S == DOMAIN Sel(c.mask)
        fld == IF b = "mu" THEN FieldIn(MuFields, RemoveAll(Chars(h), Chars("mu_")))
               ELSE FieldIn(EleFields, RemoveAll(Chars(h), Chars("ele_")))
        lep(k) == IF b = "mu" THEN c.evs[Sel(c.mask)[k]].Muon[1]
                  ELSE c.evs[Sel(c.mask)[k]].Electron[1]
    IN  IF IsNone(fld) \/ \E k \in S : IsNone(lep(k)) THEN Raise
        ELSE FlatCall(c, h, [k \in S |-> [val |-> Val(lep(k))[Val(fld)]]])

\* one pass of "for i in range(2)" of the jet-kinematics branch, lines 338-345
T_JetPass(c, h, i) ==
    LET S == DOMAIN Sel(c.mask)
        fld == FieldOf(h, IF i = 0 THEN "jet0_" ELSE "jet1_")
    IN  IF \E k \in S : Len(sjets(c.ch, c.o, c.mask)[k]) < i + 1 THEN Raise
        ELSE IF ~Contains(h, IF i = 0 THEN "0" ELSE "1") THEN Calls(<<>>)
        ELSE IF IsNone(fld) THEN Raise
        ELSE FlatCall(c, h, [k \in S |->
                 [flav |-> genflavor(c.ch, c.real, c.o, c.mask)[k][i + 1],
                  val |-> sjets(c.ch, c.o, c.mask)[k][i + 1][Val(fld)]]])

T_NameCalls(c, h) ==
    LET b == T_Branch(h)
    IN  IF b = "taginput" THEN JetCalls(c, h, FieldIn(JetFields, Chars(h)))
        ELSE IF b = "disc" THEN Then(T_DiscPass(c, h, 0), T_DiscPass(c, h, 1))
        ELSE IF b \in {"mu", "ele"} THEN T_LeptonCalls(c, h, b)
        ELSE IF b = "jetkin" THEN Then(T_JetPass(c, h, 0), T_JetPass(c, h, 1))
        ELSE Calls(<<>>)

NameCalls(c, h) == IF c.ch = "ctag" THEN W_NameCalls(c, h) ELSE T_NameCalls(c, h)

RECURSIVE LoopCalls(_, _)
\* the fills of "for histname, h in output.items()" over the names from n on
LoopCalls(c, n) ==
    IF n > Len(HistOrder(c.ch)) THEN Calls(<<>>)
    ELSE Then(NameCalls(c, HistOrder(c.ch)[n]), LoopCalls(c, n + 1))

\* the loop: it raises at once if a selected object is missing (ctag: the
\* weight osss is then missing, which no fill accepts)
FillLoop(c) == IF SelectedMissing(c) THEN Raise ELSE LoopCalls(c, 1)

\* ttdilep, lines 347-352: output[f"dr_mujet{i}"].fill(...), smu being the
\* muons events.Muon was replaced by
T_DrCall(c, i) ==
    IF \E k \in DOMAIN Sel(c.mask) : Len(sjets(c.ch, c.o, c.mask)[k]) < i + 1
    THEN Raise
    ELSE Calls(<<[hist |-> IF i = 0 THEN "dr_mujet0" ELSE "dr_mujet1", syst |-> "",
                 keys |-> [k \in DOMAIN Sel(c.mask) |->
                             [flav |-> genflavor(c.ch, c.real, c.o, c.mask)[k][i + 1],
                              dr |-> dR(Val(c.evs[Sel(c.mask)[k]].Muon[1]),
                                        sjets(c.ch, c.o, c.mask)[k][i + 1])]],
                 weight |-> EvWeight(c)]>>)

\* output["njet"].fill(njet, weight=...)
NjetCall(c) ==
    [hist |-> "njet", syst |-> "",
     keys |-> [k \in DOMAIN Sel(c.mask) |-> [njet |-> njet(c.ch, c.o, c.mask)[k]]],
     weight |-> EvWeight(c)]

\* a.pt / b.pt, in hundredths
Ratio(a, b) == (100 * a.pt) \div b.pt

\* the sum a + b of two four-vectors, kept as its two terms
VecSum(a, b) == <<[pt |-> a.pt, eta |-> a.eta], [pt |-> b.pt, eta |-> b.eta]>>

\* ctag lines 450-493: the fills of the pt ratios, the angular separations
\* and the components of sz = shmu + ssmu and sw = shmu + smet
W_RestCalls(c) ==
    LET S == DOMAIN Sel(c.mask)
        w == EvWeight(c)
        hl(k) == Val(shmu(c.o, c.mask)[k])
        sl(k) == Val(ssmu(c.o, c.mask)[k])
        mj(k) == Val(smuon_jet(c.o, c.mask)[k])
        mf(k) == Val(smflav(c.real, c.o, c.mask)[k])
        j0(k) == sjets(c.ch, c.o, c.mask)[k][1]
        f0(k) == genflavor(c.ch, c.real, c.o, c.mask)[k][1]
        smet(k) == [pt |-> c.evs[Sel(c.mask)[k]].MET.pt, eta |-> 0]
        call(h, key(_)) == [hist |-> h, syst |-> "", keys |-> [k \in S |-> key(k)],
                            weight |-> w]
        comp(h, q, other(_)) ==
            call(h, LAMBDA k : [q |-> q, sum |-> VecSum(hl(k), other(k))])
    IN  IF SelectedMissing(c) \/ \E k \in S : Len(sjets(c.ch, c.o, c.mask)[k]) < 1
        THEN Raise
        ELSE Calls(<<
            NjetCall(c),
            call("hl_ptratio", LAMBDA k : [flav |-> f0(k), ratio |-> Ratio(hl(k), j0(k))]),
            call("soft_l_ptratio", LAMBDA k : [flav |-> mf(k), ratio |-> Ratio(sl(k), mj(k))]),
            call("dr_lmujetsmu", LAMBDA k : [flav |-> mf(k), dr |-> dR(mj(k), sl(k))]),
            call("dr_lmujethmu", LAMBDA k : [flav |-> mf(k), dr |-> dR(mj(k), hl(k))]),
            call("dr_lmusmu", LAMBDA k : [dr |-> dR(hl(k), sl(k))]),
            comp("z_pt", "pt", sl), comp("z_eta", "eta", sl),
            comp("z_phi", "phi", sl), comp("z_mass", "mass", sl),
            comp("w_pt", "pt", smet), comp("w_eta", "eta", smet),
            comp("w_phi", "phi", smet), comp("w_mass", "mass", smet)>>)

\* the fills after the loop
RestCalls(c) ==
    IF c.ch = "ctag" THEN W_RestCalls(c)
    ELSE Then(Then(T_DrCall(c, 0), T_DrCall(c, 1)), Calls(<<NjetCall(c)>>))

----------------------------------------------------------------------------
(* Histograms: per bin (the values of the axes) the sum of the weights and *)
(* the sum of their squares.  A histogram no fill has reached is <<>>.     *)

EmptyHists(ch) == [h \in HistNames(ch) |-> <<>>]

\* the content of a bin
Bin(h, key) == IF key \in DOMAIN h THEN h[key] ELSE <<0, 0>>

\* h.fill of one entry
HAdd(h, key, w) ==
    [b \in DOMAIN h \cup {key} |->
        IF b = key THEN <<Bin(h, key)[1] + w, Bin(h, key)[2] + w * w>> ELSE h[b]]

RECURSIVE HFill(_, _, _, _)
\* h.fill of the entries from k on
HFill(h, keys, weight, k) ==
    IF k > Len(keys) THEN h
    ELSE HFill(HAdd(h, keys[k], weight[k]), keys, weight, k + 1)

RECURSIVE ApplyCalls(_, _)
\* the histograms after a sequence of fill calls
ApplyCalls(hs, calls) ==
    IF calls = <<>> THEN hs
    ELSE LET call == Head(calls)
         IN  ApplyCalls([hs EXCEPT ![call.hist] = HFill(@, call.keys, call.weight, 1)],
                        Tail(calls))

\* the accumulators' merge: bin-wise addition
HMerge(h1, h2) ==
    IF DOMAIN h1 \cup DOMAIN h2 = {} THEN <<>>
    ELSE [b \in DOMAIN h1 \cup DOMAIN h2 |->
            <<Bin(h1, b)[1] + Bin(h2, b)[1], Bin(h1, b)[2] + Bin(h2, b)[2]>>]

\* two histograms with the same content in every bin
HistEq(h1, h2) == \A b \in DOMAIN h1 \cup DOMAIN h2 : Bin(h1, b) = Bin(h2, b)

----------------------------------------------------------------------------
(* process() as a function of its inputs: None if it raises, else the      *)
(* output [sumw, hists].                                                   *)

Context(ch, real, corr, trigs, paths, evs) ==
    LET o == Objs(ch, evs)
        mask == EventLevel(ch, ReqTrig(trigs, paths, evs), ReqLumi(real, evs), Reqs(ch, evs))
        after == EventsAfterSel(ch, evs)
    IN  [ch |-> ch, real |-> real, corr |-> corr, evs |-> after, o |-> o, mask |-> mask,
         ws |-> AddedWeights(ch, real, corr, after, mask),
         sf |-> ScaleFactors(ch, real, corr, o, mask)]

ProcessOutput(ch, real, corr, trigs, paths, evs) ==
    IF HLTAllInvalid(trigs, paths) THEN None
    ELSE LET c == Context(ch, real, corr, trigs, paths, evs)
             all == Then(FillLoop(c), RestCalls(c))
         IN  IF all.raised THEN None
             ELSE Some([sumw |-> Sumw(real, evs),
                        hists |-> ApplyCalls(EmptyHists(ch), all.calls)])

----------------------------------------------------------------------------
(* The state machine of one call of process().                             *)

Blank == <<>>

Init ==
    /\ channel \in {"ctag", "ttdilep"}
    /\ isRealData \in BOOLEAN
    /\ isCorr \in BOOLEAN
    /\ triggers \in TriggerLists(channel)
    /\ hltPaths \in Schemas(channel)
    /\ input \in Batches
    /\ events = input
    /\ pc = "start"
    /\ sumw = 0
    /\ diag = <<>>
    /\ req = Blank
    /\ objs = Blank
    /\ event_level = Blank
    /\ weights = <<>>
    /\ sf = Blank
    /\ fills = <<>>
    /\ hists = EmptyHists(channel)
    /\ returned = None

\* lines 66-83: make_output, sumw, req_lumi
Begin ==
    /\ pc = "start"
    /\ sumw' = Sumw(isRealData, events)
    /\ req' = [req_lumi |-> ReqLumi(isRealData, events)]
    /\ pc' = "hlt"
    /\ UNCHANGED <<channel, isRealData, isCorr, triggers, hltPaths, input, events, diag,
                   objs, event_level, weights, sf, fills, hists, returned>>

\* lines 85-91, the ValueError: every requested path is absent
HLTRaise ==
    /\ pc = "hlt"
    /\ HLTAllInvalid(triggers, hltPaths)
    /\ pc' = "raised"
    /\ UNCHANGED <<channel, isRealData, isCorr, triggers, hltPaths, input, events, sumw,
                   diag, req, objs, event_level, weights, sf, fills, hists, returned>>

\* lines 92-99: the diagnostic if a path is absent, then req_trig
HLT ==
    /\ pc = "hlt"
    /\ ~HLTAllInvalid(triggers, hltPaths)
    /\ diag' = IF HLTSomeInvalid(triggers, hltPaths)
               THEN Append(diag, HLTMissing(triggers, hltPaths)) ELSE diag
    /\ req' = [req_lumi |-> req.req_lumi, req_trig |-> ReqTrig(triggers, hltPaths, events)]
    /\ pc' = "select"
    /\ UNCHANGED <<channel, isRealData, isCorr, triggers, hltPaths, input, events, sumw,
                   objs, event_level, weights, sf, fills, hists, returned>>

\* ctag lines 101-161, ttdilep lines 96-125: object selection and cuts
Select ==
    /\ pc = "select"
    /\ objs' = Objs(channel, events)
    /\ req' = [req_lumi |-> req.req_lumi, req_trig |-> req.req_trig,
               cuts |-> Reqs(channel, events)]
    /\ events' = EventsAfterSel(channel, events)
    /\ pc' = "mask"
    /\ UNCHANGED <<channel, isRealData, isCorr, triggers, hltPaths, input, sumw, diag,
                   event_level, weights, sf, fills, hists, returned>>

\* ctag lines 163-175, ttdilep lines 127-130
Mask ==
    /\ pc = "mask"
    /\ event_level' = EventLevel(channel, req.req_trig, req.req_lumi, req.cuts)
    /\ pc' = "weights"
    /\ UNCHANGED <<channel, isRealData, isCorr, triggers, hltPaths, input, events, sumw,
                   diag, req, objs, weights, sf, fills, hists, returned>>

\* ctag lines 203-238, ttdilep lines 143-173
AddWeights ==
    /\ pc = "weights"
    /\ weights' = AddedWeights(channel, isRealData, isCorr, events, event_level)
    /\ pc' = "sf"
    /\ UNCHANGED <<channel, isRealData, isCorr, triggers, hltPaths, input, events, sumw,
                   diag, req, objs, event_level, sf, fills, hists, returned>>

\* ctag lines 240-347, ttdilep lines 175-277
SFStep ==
    /\ pc = "sf"
    /\ sf' = ScaleFactors(channel, isRealData, isCorr, objs, event_level)
    /\ pc' = "fill"
    /\ UNCHANGED <<channel, isRealData, isCorr, triggers, hltPaths, input, events, sumw,
                   diag, req, objs, event_level, weights, fills, hists, returned>>

\* the context of the fills, from the state
Ctx ==
    [ch |-> channel, real |-> isRealData, corr |-> isCorr, evs |-> events, o |-> objs,
     mask |-> event_level, ws |-> weights, sf |-> sf]

\* ctag lines 352-448, ttdilep lines 282-345: the loop over output.items()
Fill ==
    /\ pc = "fill"
    /\ LET r == FillLoop(Ctx)
       IN  /\ pc' = IF r.raised THEN "raised" ELSE "rest"
           /\ fills' = fills \o r.calls
           /\ hists' = ApplyCalls(hists, r.calls)
    /\ UNCHANGED <<channel, isRealData, isCorr, triggers, hltPaths, input, events, sumw,
                   diag, req, objs, event_level, weights, sf, returned>>

\* ctag lines 449-493, ttdilep lines 347-355: the fills after the loop
FillRest ==
    /\ pc = "rest"
    /\ LET r == RestCalls(Ctx)
       IN  /\ pc' = IF r.raised THEN "raised" ELSE "return"
           /\ fills' = fills \o r.calls
           /\ hists' = ApplyCalls(hists, r.calls)
    /\ UNCHANGED <<channel, isRealData, isCorr, triggers, hltPaths, input, events, sumw,
                   diag, req, objs, event_level, weights, sf, returned>>

\* return {dataset: output}
Return ==
    /\ pc = "return"
    /\ returned' = Some([sumw |-> sumw, hists |-> hists])
    /\ pc' = "done"
    /\ UNCHANGED <<channel, isRealData, isCorr, triggers, hltPaths, input, events, sumw,
                   diag, req, objs, event_level, weights, sf, fills, hists>>

Next ==
    \/ Begin
    \/ HLTRaise
    \/ HLT
    \/ Select
    \/ Mask
    \/ AddWeights
    \/ SFStep
    \/ Fill
    \/ FillRest
    \/ Return

Spec == Init /\ [][Next]_vars

----------------------------------------------------------------------------
(* Properties.                                                             *)

\* the positions at which event_level has been computed
MaskSet == pc \in {"weights", "sf", "fill", "rest", "return", "done"}

\* the positions at which the trigger block has been passed
PastHLT == pc \in {"select", "mask", "weights", "sf", "fill", "rest", "return", "done"}

\* the requirements that contribute to the mask at event i
Operands(i) == Range(MaskOperands(channel, req.req_trig, req.req_lumi, req.cuts, i))

\* C1: the final mask is a plain boolean at every event; it is True exactly
\* when every contributing requirement is True there, so it is False
\* whenever one requirement is False or missing.
C1_MaskIsConjunction ==
    MaskSet =>
        \A i \in DOMAIN input :
            /\ event_level[i] \in BOOLEAN
            /\ event_level[i] = (\A x \in Operands(i) : x = Some(TRUE))
            /\ (\E x \in Operands(i) : x = None \/ x = Some(FALSE)) => event_level[i] = FALSE

\* a batch with an event rejected on a missing requirement and a selected one
C1_Witness ==
    /\ MaskSet
    /\ \E i \in DOMAIN input : (\E x \in Operands(i) : x = None) /\ event_level[i] = FALSE
    /\ \E j \in DOMAIN input : event_level[j] = TRUE

\* the requested paths the schema has
PresentTriggers == {t \in Range(triggers) : t \in hltPaths}

\* C2: process() raises at the trigger block exactly when none of the
\* requested paths is in the schema, and then returns nothing; with some but
\* not all paths absent it prints a diagnostic and goes on, the trigger
\* requirement being the OR of the bits of the present paths, and no event
\* without a present trigger fired is selected.
C2_TriggerPolicy ==
    /\ pc = "raised" => PresentTriggers = {}
    /\ PresentTriggers = {} => pc \in {"start", "hlt", "raised"} /\ returned = None
    /\ (PastHLT /\ PresentTriggers # Range(triggers)) => diag # <<>>
    /\ PastHLT =>
          \A i \in DOMAIN input :
              req.req_trig[i] = (\E t \in PresentTriggers : t \in input[i].HLT)
    /\ MaskSet =>
          \A i \in DOMAIN input :
              event_level[i] => \E t \in PresentTriggers : t \in input[i].HLT

\* a finished run with one of two requested paths absent and an event selected
C2_Witness ==
    /\ pc = "done"
    /\ PresentTriggers # {}
    /\ PresentTriggers # Range(triggers)
    /\ diag # <<>>
    /\ returned # None
    /\ \E i \in DOMAIN input : event_level[i]

RECURSIVE GenSum(_)
\* the generator weights of the first n events of the batch, summed
GenSum(n) == IF n = 0 THEN 0 ELSE GenSum(n - 1) + input[n].genWeight

\* C4: sumw is the number of events of the batch for data and the sum of
\* genWeight over all of its events for simulation, whatever the mask.
C4_SumwWholeBatch ==
    /\ pc # "start" => sumw = IF isRealData THEN Len(input) ELSE GenSum(Len(input))
    /\ returned # None =>
          Val(returned).sumw = IF isRealData THEN Len(input) ELSE GenSum(Len(input))

\* a simulated batch returned with an event rejected and weights other than 1
C4_Witness ==
    /\ pc = "done"
    /\ ~isRealData
    /\ \E i \in DOMAIN input : ~event_level[i]
    /\ \E i \in DOMAIN input : event_level[i] /\ input[i].genWeight # 1
    /\ Val(returned).sumw # Len(input)

\* process() on the events lo..hi of the batch, same dataset and configuration
ProcessPart(lo, hi) ==
    ProcessOutput(channel, isRealData, isCorr, triggers, hltPaths, SubSeq(input, lo, hi))

\* C3: for every split of the batch into a first part A and a rest B, the
\* outputs of process(A) and process(B), merged bin by bin, are the output
\* of process() on the whole batch: the same sumw and the same content in
\* every bin of every histogram.
C3_MergeLaw ==
    pc = "done" =>
        \A n \in 0..Len(input) :
            LET a == ProcessPart(1, n)
                b == ProcessPart(n + 1, Len(input))
            IN  /\ a # None
                /\ b # None
                /\ Val(a).sumw + Val(b).sumw = Val(returned).sumw
                /\ \A h \in HistNames(channel) :
                       HistEq(HMerge(Val(a).hists[h], Val(b).hists[h]),
                              Val(returned).hists[h])

\* the subleading-jet discriminant histograms of ctag
SubleadingHists == {"btagDeepB_1", "btagDeepC_1", "btagDeepFlavB_1", "btagDeepFlavC_1",
                    "btagDeepCvL_1", "btagDeepCvB_1", "btagDeepFlavCvL_1",
                    "btagDeepFlavCvB_1"}

\* the merge law outside the histograms filled behind the whole-batch guard:
\* sumw and every histogram of ttdilep, and in ctag every histogram but the
\* subleading-jet ones
C3_MergeLawElsewhere ==
    pc = "done" =>
        \A n \in 0..Len(input) :
            LET a == ProcessPart(1, n)
                b == ProcessPart(n + 1, Len(input))
            IN  /\ a # None
                /\ b # None
                /\ Val(a).sumw + Val(b).sumw = Val(returned).sumw
                /\ \A h \in HistNames(channel) :
                       (channel = "ctag" /\ h \in SubleadingHists) \/
                       HistEq(HMerge(Val(a).hists[h], Val(b).hists[h]),
                              Val(returned).hists[h])

\* the positions at which the fill loop has run to its end
LoopDone == pc \in {"rest", "return", "done"}

\* the fill calls made for histogram h
CallsOf(h) == SelectSeq(fills, LAMBDA call : call.hist = h)

\* the number of jets of event i that passed the jet selection
NSelJets(i) == Len(objs.event_jet[i])

\* C5: in ctag a subleading-jet discriminant histogram is skipped for the
\* batch only if no selected event has two or more jets; if one has, the
\* histogram is filled.
C5_SkipOnlyIfNoneHasTwo ==
    (LoopDone /\ channel = "ctag") =>
        \A h \in SubleadingHists :
            /\ CallsOf(h) = <<>> =>
                  ~\E i \in DOMAIN input : event_level[i] /\ NSelJets(i) >= 2
            /\ (\E i \in DOMAIN input : event_level[i] /\ NSelJets(i) >= 2) =>
                  CallsOf(h) # <<>>

\* what the guard does: the histogram is filled exactly when every selected
\* event has two or more jets (also when no event is selected)
C5_GuardAsCoded ==
    (LoopDone /\ channel = "ctag") =>
        \A h \in SubleadingHists :
            (CallsOf(h) # <<>>) = (\A i \in DOMAIN input : event_level[i] => NSelJets(i) >= 2)

\* the histograms keyed to the subleading jet
SubleadingKeyed == SubleadingHists \cup {"dr_mujet1"}

\* C6: no entry of a histogram keyed to the subleading jet comes from a
\* selected event with exactly one jet, and nothing but the trigger check
\* makes process() raise: a batch with such an event is processed to the end.
C6_OneJetEventNeverFills ==
    /\ \A n \in DOMAIN fills :
          fills[n].hist \in SubleadingKeyed =>
              /\ Len(fills[n].keys) = Len(Sel(event_level))
              /\ \A k \in DOMAIN fills[n].keys : NSelJets(Sel(event_level)[k]) >= 2
    /\ pc = "raised" => PresentTriggers = {}

\* a finished ctag run with a selected event of exactly one jet
C6_Witness ==
    /\ pc = "done"
    /\ channel = "ctag"
    /\ returned # None
    /\ \E i \in DOMAIN input : event_level[i] /\ NSelJets(i) = 1
    /\ \E i \in DOMAIN input : event_level[i] /\ NSelJets(i) = 2
    /\ \A h \in SubleadingHists : CallsOf(h) = <<>>

\* the discriminant histograms of the soft-muon jet (ctag) or leading jet (ttdilep)
LeadingHists == {"btagDeepB_0", "btagDeepC_0", "btagDeepFlavB_0", "btagDeepFlavC_0",
                 "btagDeepCvL_0", "btagDeepCvB_0", "btagDeepFlavCvL_0",
                 "btagDeepFlavCvB_0"}

DiscHists == LeadingHists \cup SubleadingHists

\* the jet index and the discriminant a discriminant histogram is named for
IdxOf(h) == IF h \in LeadingHists THEN 0 ELSE 1

DiscOf(h) ==
    CHOOSE d \in Discriminants : Chars(d) = SubSeq(Chars(h), 1, Len(Chars(h)) - 2)

\* the jet of event i that histogram h targets
TargetJet(h, i) ==
    IF channel = "ctag" /\ IdxOf(h) = 0 THEN Val(objs.mu_jet[i][1])
    ELSE objs.event_jet[i][IdxOf(h) + 1]

\* the weight of event i in the fills: the product of the registered
\* components, times the charge-sign factor in ctag
EventWeight(i) ==
    ProdAt(weights, i) *
    (IF channel = "ctag"
     THEN Val(objs.iso_ele[i]).charge * Val(objs.soft_muon[i][1]).charge * (-1)
     ELSE 1)

\* the scale factor of variant sy of the family mapped to h, for the jet h
\* targets in event i
VariantSF(h, sy, i) ==
    TableEval(TableOf(disc_list(DiscOf(h))), TagOf(disc_list(DiscOf(h)), sy),
              LookupArgs(disc_list(DiscOf(h)), TargetJet(h, i)))

\* the calls of h with syst argument sy
CallsWith(h, sy) == SelectSeq(fills, LAMBDA call : call.hist = h /\ call.syst = sy)

\* h was filled once without scale factor, with the event weight
NominalFill(h) ==
    /\ Len(CallsWith(h, "noSF")) = 1
    /\ CallsWith(h, "noSF")[1].weight =
          [k \in DOMAIN Sel(event_level) |-> EventWeight(Sel(event_level)[k])]

\* h was filled once for each of SF, SFup, SFdn, the event weight times the variant
VariantFills(h) ==
    \A sy \in Systs :
        /\ Len(CallsWith(h, sy)) = 1
        /\ CallsWith(h, sy)[1].weight =
              [k \in DOMAIN Sel(event_level) |->
                  EventWeight(Sel(event_level)[k]) * VariantSF(h, sy, Sel(event_level)[k])]

\* C7: for simulation with corrections every discriminant histogram that is
\* filled, of index 0 and of index 1 in both workflows, is filled once
\* without scale factor with the event weight and once for each of the
\* central, up and down variant with the event weight times that variant's
\* scale factor of the targeted jet.
C7_NominalAndVariants ==
    (LoopDone /\ ~isRealData /\ isCorr) =>
        \A h \in DiscHists :
            CallsOf(h) # <<>> => NominalFill(h) /\ VariantFills(h) /\ Len(CallsOf(h)) = 4

\* the same for every discriminant histogram but the subleading-jet ones of ctag
C7_VariantsElsewhere ==
    (LoopDone /\ ~isRealData /\ isCorr) =>
        \A h \in DiscHists :
            (CallsOf(h) # <<>> /\ ~(channel = "ctag" /\ h \in SubleadingHists)) =>
                NominalFill(h) /\ VariantFills(h) /\ Len(CallsOf(h)) = 4

\* the subleading-jet histograms of ctag, when filled, get the one fill without
\* scale factor and no variant: disc_list[...][1] is an empty dict there
C7_CtagSubleadingNoVariant ==
    (LoopDone /\ channel = "ctag") =>
        \A h \in SubleadingHists :
            CallsOf(h) # <<>> => NominalFill(h) /\ Len(CallsOf(h)) = 1

\* the positions at which the scale-factor block has run
SFDone == pc \in {"fill", "rest", "return", "done"}

\* C8: the tables are read only for simulation with corrections enabled.
\* For data, or with isCorr = False, no lookup is made, every discriminant
\* histogram that is filled gets its one fill without scale factor and no
\* variant, and the fill loop does not touch the undefined disc_list:
\* process() raises only at the trigger check.
C8_NoLookupWithoutCorrections ==
    /\ (SFDone /\ sf.lookups # {}) => (~isRealData /\ isCorr)
    /\ (isRealData \/ ~isCorr) =>
          /\ SFDone => (sf.lookups = {} /\ ~sf.defined)
          /\ \A n \in DOMAIN fills :
                fills[n].hist \in DiscHists => fills[n].syst = "noSF"
          /\ LoopDone => \A h \in DiscHists : Len(CallsOf(h)) <= 1
          /\ pc = "raised" => PresentTriggers = {}

\* a simulated batch processed to the end with isCorr = False, an event
\* selected and the discriminant histograms filled
C8_Witness ==
    /\ pc = "done"
    /\ ~isRealData
    /\ ~isCorr
    /\ \E i \in DOMAIN input : event_level[i]
    /\ \A h \in LeadingHists : Len(CallsOf(h)) = 1 /\ CallsOf(h)[1].keys # <<>>

\* the discriminant argument(s) of a lookup made for jet j: the last
\* argument of a b-table lookup, the last two of a charm-table lookup
RawLookupArgs(table, j) ==
    CASE table = "_deepjetc_sf" -> <<j.btagDeepFlavCvL, j.btagDeepFlavCvB>>
      [] table = "_deepjetb_sf" -> <<j.btagDeepFlavB>>
      [] table = "_deepcsvc_sf" -> <<j.btagDeepCvL, j.btagDeepCvB>>
      [] table = "_deepcsvb_sf" -> <<j.btagDeepB>>

\* the jet of event i a lookup of index idx is made for
LookupJet(idx, i) ==
    IF channel = "ctag" THEN Val(objs.mu_jet[i][1]) ELSE objs.event_jet[i][idx + 1]

\* the last n entries of a sequence
LastN(q, n) == SubSeq(q, Len(q) - n + 1, Len(q))

\* C9: every entry of every fill of a discriminant histogram carries -0.2
\* (here -2) if the targeted jet's discriminant is below 0 and the
\* discriminant itself otherwise; every scale-factor lookup is given the
\* jet's discriminants as they are, unclipped.
C9_ClipFillNotLookup ==
    /\ \A n \in DOMAIN fills :
          fills[n].hist \in DiscHists =>
              \A k \in DOMAIN fills[n].keys :
                  LET raw == TargetJet(fills[n].hist, Sel(event_level)[k])[DiscOf(fills[n].hist)]
                  IN  fills[n].keys[k].discr = IF raw < 0 THEN -2 ELSE raw
    /\ SFDone =>
          \A l \in sf.lookups :
              \A k \in DOMAIN l.args :
                  LET want == RawLookupArgs(l.table, LookupJet(l.idx, Sel(event_level)[k]))
                  IN  LastN(Val(l.args[k]), Len(want)) = want

\* a variant fill with one entry clipped from -0.1 and one entry kept, and a
\* charm-table lookup given the discriminant -0.1 as it is
C9_Witness ==
    /\ LoopDone
    /\ \E n \in DOMAIN fills :
          /\ fills[n].hist \in DiscHists
          /\ fills[n].syst = "SFup"
          /\ \E k \in DOMAIN fills[n].keys :
                /\ fills[n].keys[k].discr = -2
                /\ TargetJet(fills[n].hist, Sel(event_level)[k])[DiscOf(fills[n].hist)] = -1
          /\ \E k \in DOMAIN fills[n].keys : fills[n].keys[k].discr > 0
    /\ \E l \in sf.lookups : \E k \in DOMAIN l.args :
          \E m \in 2..Len(Val(l.args[k])) :
              l.table = "_deepcsvc_sf" /\ Val(l.args[k])[m] = -1

\* the positions at which the weight block has run
WeightsDone == pc \in {"sf", "fill", "rest", "return", "done"}

\* C10: for data nothing is registered in the weight accumulator and the
\* nominal weight of every event is 1; for simulation the generator weight
\* is registered exactly once, with the genWeight of every event of the batch.
C10_GenWeightRegistration ==
    WeightsDone =>
        /\ isRealData =>
              /\ weights = <<>>
              /\ \A i \in DOMAIN input : Weight(weights, Len(input))[i] = 1
        /\ ~isRealData =>
              /\ Cardinality({n \in DOMAIN weights : weights[n].name = "genweight"}) = 1
              /\ \A n \in DOMAIN weights :
                    weights[n].name = "genweight" =>
                        /\ Len(weights[n].w) = Len(input)
                        /\ \A i \in DOMAIN input : weights[n].w[i] = input[i].genWeight

\* a data batch processed to the end with an event selected, filled with weight 1
C10_Witness ==
    /\ pc = "done"
    /\ isRealData
    /\ isCorr
    /\ weights = <<>>
    /\ \E i \in DOMAIN input : event_level[i] /\ input[i].genWeight # 1
    /\ \A k \in DOMAIN CallsOf("njet")[1].weight : Abs(CallsOf("njet")[1].weight[k]) = 1

\* the events of the batch the mask rejects
Rejected == {i \in DOMAIN input : ~event_level[i]}

\* C11, as the specification states it: every registered weight component
\* has the length of the batch and is 1 at every event the mask rejects.
C11_ComponentsOneAtRejected ==
    WeightsDone =>
        \A n \in DOMAIN weights :
            /\ Len(weights[n].w) = Len(input)
            /\ \A i \in Rejected : weights[n].w[i] = 1

\* C11, as the code has it: every registered weight component has the length
\* of the batch, entry i belonging to event i; the two lepton components are
\* 1 at every rejected event, while the generator and pileup components
\* carry the event's own value whether or not the event is selected.
C11_ComponentsFullLength ==
    WeightsDone =>
        \A n \in DOMAIN weights :
            /\ DOMAIN weights[n].w = DOMAIN input
            /\ weights[n].name \in {"lep1sf", "lep2sf"} =>
                  \A i \in Rejected : weights[n].w[i] = 1
            /\ weights[n].name = "genweight" =>
                  \A i \in DOMAIN input : weights[n].w[i] = input[i].genWeight
            /\ weights[n].name = "puweight" =>
                  \A i \in DOMAIN input : weights[n].w[i] = input[i].puWeight

\* all four components registered for a batch with a selected event whose
\* lepton scale factor is not 1 and a rejected event that has a lepton
\* passing the cuts and a generator weight other than 1
C11_Witness ==
    /\ WeightsDone
    /\ Len(weights) = 4
    /\ \E i \in DOMAIN input : event_level[i] /\ weights[3].w[i] # 1
    /\ \E i \in Rejected :
          /\ input[i].genWeight # 1
          /\ input[i].Electron # <<>>
          /\ weights[3].w[i] = 1 /\ weights[4].w[i] = 1

\* the positions at which the object selection block has run
SelectDone == pc \in {"mask", "weights", "sf", "fill", "rest", "return", "done"}

\* a collection as an option-type array with no entry missing
AsOptions(x) == [k \in DOMAIN x |-> Some(x[k])]

\* the Electron, Muon and Jet collections of every event of a batch, the
\* lepton collections as option-type arrays (padded: they already are)
Collections(evs, padded) ==
    [i \in DOMAIN evs |->
        [Electron |-> IF padded THEN evs[i].Electron ELSE AsOptions(evs[i].Electron),
         Muon |-> IF padded THEN evs[i].Muon ELSE AsOptions(evs[i].Muon),
         Jet |-> evs[i].Jet]]

\* C12: after the object selection the Electron, Muon and Jet collections
\* of the batch hold the objects they held at entry, unfiltered and unpadded.
C12_SelectionLeavesBatch ==
    SelectDone => Collections(events, channel = "ttdilep") = Collections(input, FALSE)

\* the part of C12 that holds: ctag leaves the whole batch as it was, and
\* ttdilep leaves everything but events.Muon and events.Electron
C12_BatchElsewhere ==
    SelectDone =>
        /\ channel = "ctag" => events = input
        /\ \A i \in DOMAIN input :
              /\ events[i].Jet = input[i].Jet
              /\ events[i].genWeight = input[i].genWeight
              /\ events[i].HLT = input[i].HLT

\* what ttdilep leaves in the batch: the leptons above threshold that pass
\* the identification, padded to one entry, which the weight block then reads
C12_TTDilepReplacesLeptons ==
    (SelectDone /\ channel = "ttdilep") =>
        /\ \A i \in DOMAIN input :
              /\ events[i].Muon = T_Muon(input[i])
              /\ events[i].Electron = T_Electron(input[i])
        /\ (WeightsDone /\ Len(weights) = 4) =>
              \A i \in DOMAIN input :
                  weights[3].w[i] = LepSF(event_level[i], T_Muon(input[i])[1])

\* C13: in every event of every batch, each selection applied to the
\* collection it has produced returns that collection: the isolated
\* electrons, soft muons, jets and muon jets of ctag, the muons, electrons
\* and jets of ttdilep, padded or not.  (First conjunct of each pair: the
\* selection applied to the batch's own collection is what process() holds.)
C13_SelectionIdempotent ==
    SelectDone =>
        \A i \in DOMAIN input :
            IF channel = "ctag"
            THEN /\ Re_W_iso_ele(AsOptions(input[i].Electron))[1] = objs.iso_ele[i]
                 /\ Re_W_iso_ele(Re_W_iso_ele(AsOptions(input[i].Electron)))
                       = Re_W_iso_ele(AsOptions(input[i].Electron))
                 /\ Re_W_soft_muon(AsOptions(input[i].Muon)) = objs.soft_muon[i]
                 /\ Re_W_soft_muon(objs.soft_muon[i]) = objs.soft_muon[i]
                 /\ Re_W_event_jet(objs.event_jet[i], input[i]) = objs.event_jet[i]
                 /\ Re_W_mu_jet(AsOptions(objs.event_jet[i]), input[i]) = objs.mu_jet[i]
                 /\ Re_W_mu_jet(objs.mu_jet[i], input[i]) = objs.mu_jet[i]
            ELSE /\ Re_T_Muon(AsOptions(input[i].Muon)) = events[i].Muon
                 /\ Re_T_Muon(events[i].Muon) = events[i].Muon
                 /\ Re_T_Electron(AsOptions(input[i].Electron)) = events[i].Electron
                 /\ Re_T_Electron(events[i].Electron) = events[i].Electron
                 /\ Re_T_event_jet(objs.event_jet[i], input[i]) = objs.event_jet[i]

\* a ttdilep batch after the selection with an event whose muons were all
\* removed, leaving the placeholder, and an event that lost one muon of two
\* and one jet of three
C13_Witness ==
    /\ SelectDone
    /\ channel = "ttdilep"
    /\ \E i \in DOMAIN input : input[i].Muon # <<>> /\ events[i].Muon = <<None>>
    /\ \E i \in DOMAIN input :
          /\ Len(input[i].Muon) = 2 /\ Len(events[i].Muon) = 1
          /\ ~IsNone(events[i].Muon[1])
          /\ Len(input[i].Jet) = 3 /\ Len(objs.event_jet[i]) = 2

\* the histograms filled from a ragged per-jet quantity, with the jet field
\* each is filled from
RaggedHists ==
    IF channel = "ctag" THEN {"DeepCSV_jetNSelectedTracks", "jet_pt"}
    ELSE {"DeepCSV_jetNSelectedTracks"}

RaggedField(h) == IF h = "jet_pt" THEN "pt" ELSE h

\* the selected jets of event i: the jets that passed the jet selection, in
\* ttdilep the two leading ones (sjets)
KeptJets(i) ==
    IF channel = "ctag" \/ NSelJets(i) <= 2 THEN objs.event_jet[i]
    ELSE SubSeq(objs.event_jet[i], 1, 2)

RECURSIVE JetEntries(_)
\* the selected jets of the selected events from event i on, in order
JetEntries(i) ==
    IF i > Len(input) THEN <<>>
    ELSE (IF event_level[i] THEN [n \in DOMAIN KeptJets(i) |-> [ev |-> i, jet |-> n]]
          ELSE <<>>) \o JetEntries(i + 1)

\* C14: every histogram of a ragged per-jet quantity is filled once, with
\* one entry and one weight per selected jet of a selected event and none
\* for the jets of rejected events; the weight of a jet is the weight of
\* its event (the product of the registered components at that event,
\* times the charge-sign factor in ctag).
C14_WeightBroadcastPerJet ==
    LoopDone =>
        \A h \in RaggedHists :
            /\ Len(CallsOf(h)) = 1
            /\ LET call == CallsOf(h)[1]
                   E == JetEntries(1)
               IN  /\ Len(call.weight) = Len(E)
                   /\ Len(call.keys) = Len(E)
                   /\ \A m \in DOMAIN E :
                         /\ call.weight[m] = EventWeight(E[m].ev)
                         /\ call.keys[m].val = KeptJets(E[m].ev)[E[m].jet][RaggedField(h)]

\* a batch of a selected event with two jets and a weight other than 1 and
\* of a rejected event that has jets: two entries, both with that weight
C14_Witness ==
    /\ LoopDone
    /\ Len(input) = 2
    /\ \E i \in DOMAIN input :
          event_level[i] /\ Len(KeptJets(i)) = 2 /\ EventWeight(i) # 1
    /\ \E i \in DOMAIN input : ~event_level[i] /\ input[i].Jet # <<>>
    /\ \A h \in RaggedHists : Len(CallsOf(h)[1].weight) = 2

\* the flavour label the specification gives jet j
Label(j) ==
    IF isRealData THEN 0
    ELSE IF j.hadronFlavour = 0 /\ j.partonFlavour = 0 THEN 1 ELSE j.hadronFlavour

\* C15: the label every fill carries for a selected jet is in {0, 1, 4, 5}:
\* for data 0 whatever the jet's fields; for simulation the hadron flavour,
\* but 1 when hadron and parton flavour are both 0.  Checked on the labels
\* of all selected jets (the ragged fills), of the jet each discriminant
\* histogram targets and of the muon jet of ctag.
C15_FlavorLabel ==
    LoopDone =>
        /\ \A h \in RaggedHists :
              \A m \in DOMAIN JetEntries(1) :
                  LET j == KeptJets(JetEntries(1)[m].ev)[JetEntries(1)[m].jet]
                  IN  /\ CallsOf(h)[1].keys[m].flav = Label(j)
                      /\ Label(j) \in {0, 1, 4, 5}
                      /\ (~isRealData /\ Label(j) = 1) <=>
                            (~isRealData /\ j.hadronFlavour = 0 /\ j.partonFlavour = 0)
        /\ \A n \in DOMAIN fills :
              fills[n].hist \in DiscHists =>
                  \A k \in DOMAIN fills[n].keys :
                      fills[n].keys[k].flav
                          = Label(TargetJet(fills[n].hist, Sel(event_level)[k]))
        /\ channel = "ctag" =>
              \A k \in DOMAIN Sel(event_level) :
                  CallsOf("mujet_pt")[1].keys[k].flav
                      = Label(Val(objs.mu_jet[Sel(event_level)[k]][1]))

\* a simulated batch whose selected jets carry all four labels
C15_Witness ==
    /\ LoopDone
    /\ ~isRealData
    /\ {CallsOf("DeepCSV_jetNSelectedTracks")[1].keys[m].flav :
            m \in DOMAIN CallsOf("DeepCSV_jetNSelectedTracks")[1].keys} = {0, 1, 4, 5}

\* C16: every selected event has the objects the fills read at a fixed
\* index.  ctag: exactly one isolated electron, a soft muon and a muon jet
\* in first place, one to three jets, and the subleading jet is read only
\* in batches whose selected events all have two jets or more.  ttdilep:
\* exactly one muon and one electron, of opposite charge, and two jets or
\* more.  No fill fails on a missing object: process() raises only at the
\* trigger check.
C16_FixedIndexObjectsExist ==
    /\ MaskSet =>
          \A i \in DOMAIN input :
              event_level[i] =>
                  IF channel = "ctag"
                  THEN /\ Len(W_iso_ele_all(input[i])) = 1
                       /\ ~IsNone(objs.iso_ele[i])
                       /\ count(objs.soft_muon[i]) >= 1
                       /\ ~IsNone(objs.soft_muon[i][1])
                       /\ count(objs.mu_jet[i]) >= 1
                       /\ ~IsNone(objs.mu_jet[i][1])
                       /\ NSelJets(i) \in 1..MaxJets
                  ELSE /\ count(events[i].Muon) = 1
                       /\ ~IsNone(events[i].Muon[1])
                       /\ count(events[i].Electron) = 1
                       /\ ~IsNone(events[i].Electron[1])
                       /\ Val(events[i].Muon[1]).charge * Val(events[i].Electron[1]).charge = -1
                       /\ NSelJets(i) >= 2
    /\ (LoopDone /\ channel = "ctag") =>
          \A h \in SubleadingHists :
              CallsOf(h) # <<>> =>
                  \A i \in DOMAIN input : event_level[i] => NSelJets(i) >= 2
    /\ pc = "raised" => PresentTriggers = {}

\* a ctag batch processed to the end in which a selected event has a single
\* jet: the fills of the electron, the soft muon and the muon jet have its
\* entry and no subleading-jet histogram was filled
C16_Witness ==
    /\ pc = "done"
    /\ channel = "ctag"
    /\ \E i \in DOMAIN input : event_level[i] /\ NSelJets(i) = 1
    /\ \E i \in DOMAIN input : event_level[i] /\ NSelJets(i) = 2
    /\ Len(CallsOf("hl_pt")[1].keys) = 2
    /\ Len(CallsOf("soft_l_pt")[1].keys) = 2
    /\ Len(CallsOf("mujet_pt")[1].keys) = 2
    /\ \A h \in SubleadingHists : CallsOf(h) = <<>>

\* the entries and weights the njet histogram was filled with so far
NjetCalls == CallsOf("njet")

\* C17, as the specification states it: njet is filled once, with one entry
\* per selected event: the number of jets of the event that passed the jet
\* selection, weighted by the event's nominal weight (the product of the
\* registered weight components).
C17_NjetPerSelectedEvent ==
    pc \in {"return", "done"} =>
        /\ Len(NjetCalls) = 1
        /\ Len(NjetCalls[1].keys) = Len(Sel(event_level))
        /\ \A k \in DOMAIN Sel(event_level) :
              /\ NjetCalls[1].keys[k].njet = NSelJets(Sel(event_level)[k])
              /\ NjetCalls[1].weight[k] = ProdAt(weights, Sel(event_level)[k])

\* what the code fills: one entry per selected event, the number of jets of
\* sjets (in ttdilep the jets left by sjets[:, :2]), weighted by the
\* nominal weight times the charge-sign factor in ctag
C17_NjetAsCoded ==
    pc \in {"return", "done"} =>
        /\ Len(NjetCalls) = 1
        /\ Len(NjetCalls[1].keys) = Len(Sel(event_level))
        /\ \A k \in DOMAIN Sel(event_level) :
              /\ NjetCalls[1].keys[k].njet = Len(KeptJets(Sel(event_level)[k]))
              /\ NjetCalls[1].weight[k] = EventWeight(Sel(event_level)[k])
        /\ channel = "ttdilep" =>
              \A k \in DOMAIN Sel(event_level) : NjetCalls[1].keys[k].njet = 2

\* the statement of C17 on the count alone
C17_NjetCountOnly ==
    pc \in {"return", "done"} =>
        \A k \in DOMAIN Sel(event_level) :
            NjetCalls[1].keys[k].njet = NSelJets(Sel(event_level)[k])

\* the statement of C17 on the weight alone
C17_NjetWeightOnly ==
    pc \in {"return", "done"} =>
        \A k \in DOMAIN Sel(event_level) :
            NjetCalls[1].weight[k] = ProdAt(weights, Sel(event_level)[k])

\* the branch of the loop that name h takes in this batch
BranchOf(h) == IF channel = "ctag" THEN W_Branch(Ctx, h) ELSE T_Branch(h)

\* the names filled after the loop
RestNames == Range(IF channel = "ctag" THEN W_RestNames ELSE T_RestNames)

\* C18: the loop routes "sumw" and every histogram filled after the loop to
\* no branch, so those histograms are empty when the loop ends and "sumw"
\* is never filled; at the end every histogram has at most one fill per
\* variation label, and a fill has one entry per selected event (per
\* selected jet for the ragged quantities): no selected event is counted
\* twice in a histogram for the same label.
C18_DispatchAtMostOnce ==
    /\ \A n \in DOMAIN fills : fills[n].hist # "sumw"
    /\ LoopDone => \A h \in RestNames \cup {"sumw"} : BranchOf(h) = "none"
    /\ pc = "rest" => \A h \in RestNames : CallsOf(h) = <<>>
    /\ \A h \in HistNames(channel) :
          \A sy \in {"", "noSF", "SF", "SFup", "SFdn"} :
              /\ Len(CallsWith(h, sy)) <= 1
              /\ \A n \in DOMAIN CallsWith(h, sy) :
                    Len(CallsWith(h, sy)[n].keys) =
                        IF h \in RaggedHists THEN Len(JetEntries(1))
                        ELSE Len(Sel(event_level))

\* a simulated ctag batch with corrections processed to the end, both
\* events selected: every histogram filled after the loop has its one
\* fill of two entries, and a discriminant histogram its four fills
C18_Witness ==
    /\ pc = "done"
    /\ channel = "ctag"
    /\ Len(Sel(event_level)) = 2
    /\ \A h \in RestNames : Len(CallsOf(h)) = 1 /\ Len(CallsOf(h)[1].keys) = 2
    /\ Len(CallsOf("btagDeepB_0")) = 4
    /\ Len(CallsOf("jet_pt")) = 1

====
